---------------------------- MODULE Spec2Model ----------------------------
(***************************************************************************)
(* A model of rouzer's server dispatcher (createRouter), its string-to-    *)
(* typed coercion of schemas (enableStringParsing) and its CORS preflight  *)
(* handling, and of the client's request builder (createClient).  The      *)
(* zod/mini schemas, the route patterns and the Fetch Request, Response    *)
(* and URL objects they call are modelled by what the calls do on the      *)
(* small values used here.                                                 *)
(*                                                                         *)
(* Spec is the dispatcher serving requests; ClientSpec is the client       *)
(* making calls; OriginSpec, CoerceSpec and BasePathSpec apply the         *)
(* allow-origin matcher, the coercion and the base path of createRouter    *)
(* on their own.                                                           *)
(***************************************************************************)
EXTENDS Integers, Sequences, FiniteSets, TLC

(***************************************************************************)
(* JavaScript values.  Every value is a record with its kind and, under a  *)
(* field named after the kind, what it holds.                              *)
(***************************************************************************)
Str(s) == [kind |-> "str", str |-> s]
Bool(b) == [kind |-> "bool", bool |-> b]
Num(n) == [kind |-> "num", num |-> n]
NaN == [kind |-> "nan"]
Undef == [kind |-> "undef"]
Null == [kind |-> "null"]
Obj(f) == [kind |-> "obj", props |-> f]
Arr(q) == [kind |-> "arr", items |-> q]

\* The empty object {}.
EmptyMap == [k \in {} |-> Undef]
EmptyObj == Obj(EmptyMap)

\* obj[key], undefined when the key is absent.
Prop(obj, key) == IF key \in DOMAIN obj.props THEN obj.props[key] ELSE Undef

(***************************************************************************)
(* zod/mini schemas: records with a `type`, as schema.type in the source.  *)
(* An object schema carries its shape as a sequence of <<key, schema>>     *)
(* pairs (Object.keys order) and an `id` standing for the object identity  *)
(* the WeakMap `seen` is keyed by.                                         *)
(***************************************************************************)
ZString == [type |-> "string"]
ZNumber == [type |-> "number"]
ZBoolean == [type |-> "boolean"]
ZOptional(s) == [type |-> "optional", inner |-> s]
ZArray(s) == [type |-> "array", element |-> s]
ZObject(i, sh) == [type |-> "object", id |-> i, shape |-> sh]
ZPipeTransform(f, s) == [type |-> "pipe", fn |-> f, out |-> s]
\* An undeclared schema (route.path, route.query... being undefined).
NoSchema == [type |-> "none"]

\* Number(value).  An array is first written as a string: the empty array
\* as "", an array of one element as that element (null and undefined as
\* ""), a longer one with commas, which is no number.
RECURSIVE NumberOf(_)
NumberOf(v) ==
    CASE v.kind = "num" -> v
      [] v.kind = "bool" -> IF v.bool THEN Num(1) ELSE Num(0)
      [] v.kind = "null" -> Num(0)
      [] v.kind = "str" ->
            CASE v.str = "" -> Num(0)
              [] v.str = "0" -> Num(0)
              [] v.str = "1" -> Num(1)
              [] v.str = "7" -> Num(7)
              [] v.str = "42" -> Num(42)
              [] OTHER -> NaN
      [] v.kind = "arr" ->
            IF Len(v.items) = 0 THEN Num(0)
            ELSE IF Len(v.items) > 1 THEN NaN
            ELSE IF v.items[1].kind \in {"null", "undef"} THEN Num(0)
            ELSE IF v.items[1].kind \in {"num", "str", "arr"}
            THEN NumberOf(v.items[1])
            ELSE NaN
      [] OTHER -> NaN

\* The coercion taking every string but "false" for true.
toBooleanLoose(v) ==
    IF v = Str("false") THEN Bool(FALSE)
    ELSE IF v.kind = "str" THEN Bool(TRUE)
    ELSE v

\* value === 'true' || (value === 'false' ? false : value)
toBooleanStrict(v) ==
    IF v = Str("true") THEN Bool(TRUE)
    ELSE IF v = Str("false") THEN Bool(FALSE)
    ELSE v

\* z.transform(fn) applied to a value.
ApplyTransform(f, v) ==
    CASE f = "Number" -> NumberOf(v)
      [] f = "toBooleanStrict" -> toBooleanStrict(v)

(***************************************************************************)
(* schema.safeParse(value): {success: true, data} or {success: false,      *)
(* error}.  An error is the list of zod issues, each with the path of the  *)
(* offending field.                                                        *)
(***************************************************************************)
Issue(c, p) == [code |-> c, path |-> p]
Ok(v) == [success |-> TRUE, data |-> v, issues |-> <<>>]
Fail(is) == [success |-> FALSE, data |-> Undef, issues |-> is]

PrefixIssues(key, is) ==
    [n \in 1..Len(is) |-> Issue(is[n].code, <<key>> \o is[n].path)]

RECURSIVE SafeParse(_, _)
RECURSIVE ParseShape(_, _, _, _)
RECURSIVE ParseElements(_, _, _, _)

\* The fields of an object schema, in shape order, over the input object.
\* A field that parses to undefined is kept, as undefined, when the input
\* has the key, and left out when it has not.
ParseShape(sh, input, data, issues) ==
    IF sh = <<>>
    THEN IF issues = <<>> THEN Ok(Obj(data)) ELSE Fail(issues)
    ELSE LET key == Head(sh)[1]
             r == SafeParse(Head(sh)[2], Prop(input, key))
         IN  IF ~r.success
             THEN ParseShape(Tail(sh), input, data,
                             issues \o PrefixIssues(key, r.issues))
             ELSE IF r.data = Undef /\ key \notin DOMAIN input.props
             THEN ParseShape(Tail(sh), input, data, issues)
             ELSE ParseShape(Tail(sh), input,
                             [k \in DOMAIN data \cup {key} |->
                                 IF k = key THEN r.data ELSE data[k]],
                             issues)

\* The elements of an array schema over the input array.
ParseElements(el, input, data, issues) ==
    IF input = <<>>
    THEN IF issues = <<>> THEN Ok(Arr(data)) ELSE Fail(issues)
    ELSE LET r == SafeParse(el, Head(input))
         IN  IF ~r.success
             THEN ParseElements(el, Tail(input), data,
                                issues \o PrefixIssues("[]", r.issues))
             ELSE ParseElements(el, Tail(input), Append(data, r.data), issues)

SafeParse(schema, v) ==
    CASE schema.type = "string" ->
            IF v.kind = "str" THEN Ok(v)
            ELSE Fail(<<Issue("invalid_type", <<>>)>>)
      [] schema.type = "number" ->
            IF v.kind = "num" THEN Ok(v)
            ELSE Fail(<<Issue("invalid_type", <<>>)>>)
      [] schema.type = "boolean" ->
            IF v.kind = "bool" THEN Ok(v)
            ELSE Fail(<<Issue("invalid_type", <<>>)>>)
      [] schema.type = "optional" ->
            IF v = Undef THEN Ok(Undef) ELSE SafeParse(schema.inner, v)
      [] schema.type = "pipe" ->
            SafeParse(schema.out, ApplyTransform(schema.fn, v))
      [] schema.type = "array" ->
            IF v.kind = "arr"
            THEN ParseElements(schema.element, v.items, <<>>, <<>>)
            ELSE Fail(<<Issue("invalid_type", <<>>)>>)
      [] schema.type = "object" ->
            IF v.kind = "obj"
            THEN ParseShape(schema.shape, v, EmptyMap, <<>>)
            ELSE Fail(<<Issue("invalid_type", <<>>)>>)


(***************************************************************************)
(* enableStringParsing, with the module-level WeakMap `seen` passed in and *)
(* returned: the result is [schema, seen].  `seen` is a function from the  *)
(* id of an object schema to the coerced schema cached for it.             *)
(***************************************************************************)
RECURSIVE enableStringParsing(_, _)
RECURSIVE CoerceShape(_, _, _)

\* mapValues(shape, enableStringParsing): the fields in Object.keys order.
CoerceShape(sh, done, cache) ==
    IF sh = <<>>
    THEN [shape |-> done, seen |-> cache]
    ELSE LET r == enableStringParsing(Head(sh)[2], cache)
         IN  CoerceShape(Tail(sh), Append(done, <<Head(sh)[1], r.schema>>),
                         r.seen)

\* The object case without seen.set: nothing is cached.
enableStringParsingUncached(schema, cache) ==
    CASE schema.type = "number" ->
            [schema |-> ZPipeTransform("Number", schema), seen |-> cache]
      [] schema.type = "boolean" ->
            [schema |-> ZPipeTransform("toBooleanStrict", schema),
             seen |-> cache]
      [] schema.type = "object" ->
            IF schema.id \in DOMAIN cache
            THEN [schema |-> cache[schema.id], seen |-> cache]
            ELSE LET m == CoerceShape(schema.shape, <<>>, cache)
                 IN  [schema |-> ZObject(schema.id \o "'", m.shape),
                      seen |-> m.seen]
      [] schema.type = "array" ->
            LET r == enableStringParsing(schema.element, cache)
            IN  [schema |-> ZArray(r.schema), seen |-> r.seen]
      [] OTHER -> [schema |-> schema, seen |-> cache]

\* A schema that is already a pipe is replaced by the schema it pipes into.
enableStringParsingUnwrap(schema, cache) ==
    CASE schema.type = "number" ->
            [schema |-> ZPipeTransform("Number", schema), seen |-> cache]
      [] schema.type = "boolean" ->
            [schema |-> ZPipeTransform("toBooleanStrict", schema),
             seen |-> cache]
      [] schema.type = "pipe" -> [schema |-> schema.out, seen |-> cache]
      [] schema.type = "object" ->
            IF schema.id \in DOMAIN cache
            THEN [schema |-> cache[schema.id], seen |-> cache]
            ELSE LET m == CoerceShape(schema.shape, <<>>, cache)
                     modified == ZObject(schema.id \o "'", m.shape)
                 IN  [schema |-> modified,
                      seen |-> [k \in DOMAIN m.seen \cup {schema.id} |->
                                   IF k = schema.id THEN modified
                                   ELSE m.seen[k]]]
      [] schema.type = "array" ->
            LET r == enableStringParsing(schema.element, cache)
            IN  [schema |-> ZArray(r.schema), seen |-> r.seen]
      [] OTHER -> [schema |-> schema, seen |-> cache]

enableStringParsing(schema, cache) ==
    CASE schema.type = "number" ->
            [schema |-> ZPipeTransform("Number", schema), seen |-> cache]
      [] schema.type = "boolean" ->
            [schema |-> ZPipeTransform("toBooleanStrict", schema),
             seen |-> cache]
      [] schema.type = "object" ->
            IF schema.id \in DOMAIN cache
            THEN [schema |-> cache[schema.id], seen |-> cache]
            ELSE LET m == CoerceShape(schema.shape, <<>>, cache)
                     modified == ZObject(schema.id \o "'", m.shape)
                 IN  [schema |-> modified,
                      seen |-> [k \in DOMAIN m.seen \cup {schema.id} |->
                                   IF k = schema.id THEN modified
                                   ELSE m.seen[k]]]
      [] schema.type = "array" ->
            LET r == enableStringParsing(schema.element, cache)
            IN  [schema |-> ZArray(r.schema), seen |-> r.seen]
      [] OTHER -> [schema |-> schema, seen |-> cache]

(***************************************************************************)
(* Route patterns (@remix-run/route-pattern), for pathname patterns made   *)
(* of literal and :param segments.  A URL path is its sequence of          *)
(* segments.  match(url) is [ok, params].                                  *)
(***************************************************************************)
Lit(s) == [seg |-> "lit", name |-> s]
Param(s) == [seg |-> "param", name |-> s]

ParamNames(pattern) ==
    {pattern[n].name : n \in {m \in 1..Len(pattern) : pattern[m].seg = "param"}}

PatternMatch(pattern, path) ==
    IF /\ Len(pattern) = Len(path)
       /\ \A n \in 1..Len(pattern) :
             pattern[n].seg = "lit" => pattern[n].name = path[n]
    THEN [ok |-> TRUE,
          params |-> [k \in ParamNames(pattern) |->
              Str(path[CHOOSE n \in 1..Len(pattern) :
                          pattern[n] = Param(k)])]]
    ELSE [ok |-> FALSE, params |-> EmptyMap]

(***************************************************************************)
(* CORS allow-origins.  Origin strings are sequences of characters.  A     *)
(* compiled origin is either an ExactPattern or the token sequence of the  *)
(* RegExp built from it: a literal character, "[^:]+" (wildcard protocol)  *)
(* or "([^/]+\.)?" (wildcard subdomain).                                   *)
(***************************************************************************)
Chars(q, c) == {n \in 1..Len(q) : q[n] = c}

\* origin.includes('//')
IncludesSlashes(o) == \E n \in 1..(Len(o) - 1) : o[n] = "/" /\ o[n + 1] = "/"

HttpsPrefix == <<"h", "t", "t", "p", "s", ":", "/", "/">>

RECURSIVE RegexTokens(_)
\* The three replace() calls: dots are escaped, "*:" becomes "[^:]+:" and
\* "*\." becomes "([^/]+\.)?".
RegexTokens(o) ==
    IF o = <<>> THEN <<>>
    ELSE IF Len(o) >= 2 /\ o[1] = "*" /\ o[2] = ":"
    THEN <<[c |-> "", re |-> "proto"], [c |-> ":", re |-> "char"]>>
             \o RegexTokens(SubSeq(o, 3, Len(o)))
    ELSE IF Len(o) >= 2 /\ o[1] = "*" /\ o[2] = "."
    THEN <<[c |-> "", re |-> "subdomain"]>>
             \o RegexTokens(SubSeq(o, 3, Len(o)))
    ELSE <<[c |-> o[1], re |-> "char"]>> \o RegexTokens(Tail(o))

\* The compilation without the default protocol.
CompileOriginAsWritten(o) ==
    IF Chars(o, "*") # {}
    THEN [exact |-> FALSE, value |-> RegexTokens(o)]
    ELSE [exact |-> TRUE, value |-> o]

\* config.cors.allowOrigins.map(...): one compiled pattern for an origin.
CompileOrigin(o) ==
    LET origin == IF IncludesSlashes(o) THEN o ELSE HttpsPrefix \o o
    IN  IF Chars(origin, "*") # {}
        THEN [exact |-> FALSE, value |-> RegexTokens(origin)]
        ELSE [exact |-> TRUE, value |-> origin]

RECURSIVE RegexTest(_, _)
\* The test with "[^/.]+" for the label of a wildcard subdomain: one label
\* at most.
RegexTestOneLabel(re, input) ==
    IF re = <<>> THEN input = <<>>
    ELSE CASE Head(re).re = "char" ->
                 /\ input # <<>>
                 /\ Head(input) = Head(re).c
                 /\ RegexTest(Tail(re), Tail(input))
           [] Head(re).re = "proto" ->
                 \E k \in 1..Len(input) :
                     /\ \A n \in 1..k : input[n] # ":"
                     /\ RegexTest(Tail(re), SubSeq(input, k + 1, Len(input)))
           [] Head(re).re = "subdomain" ->
                 \/ RegexTest(Tail(re), input)
                 \/ \E k \in 1..(Len(input) - 1) :
                     /\ \A n \in 1..k : input[n] \notin {"/", "."}
                     /\ input[k + 1] = "."
                     /\ RegexTest(Tail(re), SubSeq(input, k + 2, Len(input)))

\* Whether the anchored token sequence matches the whole input.
RegexTest(re, input) ==
    IF re = <<>> THEN input = <<>>
    ELSE CASE Head(re).re = "char" ->
                 /\ input # <<>>
                 /\ Head(input) = Head(re).c
                 /\ RegexTest(Tail(re), Tail(input))
           [] Head(re).re = "proto" ->
                 \E k \in 1..Len(input) :
                     /\ \A n \in 1..k : input[n] # ":"
                     /\ RegexTest(Tail(re), SubSeq(input, k + 1, Len(input)))
           [] Head(re).re = "subdomain" ->
                 \/ RegexTest(Tail(re), input)
                 \/ \E k \in 1..(Len(input) - 1) :
                     /\ \A n \in 1..k : input[n] # "/"
                     /\ input[k + 1] = "."
                     /\ RegexTest(Tail(re), SubSeq(input, k + 2, Len(input)))

\* ExactPattern.test
ExactPattern(value, input) == input = value

\* pattern.test(origin)
PatternTest(pattern, input) ==
    IF pattern.exact THEN ExactPattern(pattern.value, input)
    ELSE RegexTest(pattern.value, input)


(***************************************************************************)
(* The configuration passed to createRouter: the declared routes, in       *)
(* declaration order, with the schemas of each method.                     *)
(***************************************************************************)
\* How many of the declared routes the router is built with.
MaxRoutes == 3

\* A method's schemas.  The response marker is a property only of the
\* schemas that declare one.
MethodSchema(p, h, q, b) ==
    [path |-> p, headers |-> h, query |-> q, body |-> b, response |-> Undef]

\* $type<T>(): the marker of a response type, which is null when the
\* program runs.
type == Null

\* { ...schema, response: marker }
WithResponse(schema, marker) == [schema EXCEPT !.response = marker]

helloQuery == ZObject("helloQuery", << <<"excited", ZOptional(ZBoolean)>> >>)
itemPath == ZObject("itemPath", << <<"id", ZNumber>> >>)
itemHeaders == ZObject("itemHeaders", << <<"x-v", ZNumber>> >>)
itemQuery == ZObject("itemQuery", << <<"flag", ZBoolean>> >>)
itemBody == ZObject("itemBody", << <<"title", ZString>> >>)
tagsBody == ZObject("tagsBody", << <<"tags", ZArray(ZNumber)>> >>)

AllRouteKeys == <<"hello", "item", "any", "last">>

Routes ==
    [hello |->
        [path |-> <<Lit("hello"), Param("name")>>,
         methods |-> [GET |-> WithResponse(
                                 MethodSchema(NoSchema, NoSchema, helloQuery,
                                              NoSchema), type)]],
     item |->
        [path |-> <<Lit("items"), Param("id")>>,
         methods |-> [GET |-> MethodSchema(itemPath, itemHeaders, itemQuery,
                                           NoSchema),
                      POST |-> MethodSchema(itemPath, itemHeaders, NoSchema,
                                            itemBody)]],
     any |->
        [path |-> <<Param("kind"), Param("slug")>>,
         methods |-> [GET |-> MethodSchema(NoSchema, NoSchema, NoSchema,
                                           NoSchema),
                      POST |-> MethodSchema(NoSchema, NoSchema, NoSchema,
                                            tagsBody)]],
     last |->
        [path |-> <<Lit("items"), Param("slug")>>,
         methods |-> [GET |-> MethodSchema(NoSchema, NoSchema, itemQuery,
                                           NoSchema),
                      POST |-> MethodSchema(NoSchema, itemHeaders, NoSchema,
                                            tagsBody)]]]

\* Object.keys(config.routes)
keys ==
    SubSeq(AllRouteKeys, 1,
           IF MaxRoutes < Len(AllRouteKeys) THEN MaxRoutes
           ELSE Len(AllRouteKeys))

\* The handlers given to the router, as the object they are: for each
\* route that has an object of handlers, the methods a handler is bound
\* for.  A route outside the domain has no object at all.
AllHandlers == [k \in {keys[n] : n \in 1..Len(keys)} |->
                   DOMAIN Routes[k].methods]

\* The handler maps the router is built with: every handler bound; every
\* route with an empty object; one route with an empty object; one route
\* with no object; and the empty map {}.
HandlerSets ==
    {AllHandlers, [k \in DOMAIN AllHandlers |-> {}], [k \in {} |-> {}]}
        \cup {[k \in DOMAIN AllHandlers |->
                  IF k = keys[n] THEN {} ELSE AllHandlers[k]] :
              n \in 2..Len(keys)}
        \cup {[k \in DOMAIN AllHandlers \ {keys[n]} |-> AllHandlers[k]] :
              n \in 2..Len(keys)}

\* Origin strings, as sequences of characters.
OriginExNet == <<"e", "x", ".", "n", "e", "t">>
OriginWildSub ==
    <<"h", "t", "t", "p", "s", ":", "/", "/", "*", ".", "e", "x", ".", "i", "o">>
OriginWildProto == <<"*", ":", "/", "/", "l", "h", ":", "3">>

\* config.cors?.allowOrigins: undefined, or a list of origin strings.
AllowOriginsConfigs ==
    {[defined |-> FALSE, list |-> <<>>],
     [defined |-> TRUE, list |-> <<OriginExNet, OriginWildSub>>],
     [defined |-> TRUE, list |-> <<OriginWildProto>>]}

(***************************************************************************)
(* Requests.  A header is [has, v]; Headers.get gives null when has is     *)
(* FALSE.  The body is a JSON value or text that JSON.parse rejects.       *)
(***************************************************************************)
Hdr(v) == [v |-> v, has |-> TRUE]
NoHdr == [v |-> "", has |-> FALSE]
NoOrigin == [v |-> <<>>, has |-> FALSE]
BadJson == [kind |-> "badjson"]

Paths ==
    {<<"hello", "world">>, <<"items", "7">>, <<"items", "abc">>, <<"nope">>}

Queries ==
    {EmptyMap,
     [k \in {"excited"} |-> Str("true")],
     [k \in {"excited"} |-> Str("maybe")],
     [k \in {"flag"} |-> Str("true")],
     [k \in {"flag"} |-> Str("false")],
     [k \in {"flag"} |-> Str("yes")]}

VersionHeaders == {NoHdr, Hdr("1"), Hdr("abc")}

Bodies ==
    {BadJson, EmptyObj,
     Obj([k \in {"title"} |-> Str("x")]),
     Obj([k \in {"title"} |-> Num(1)]),
     Obj([k \in {"tags"} |-> Arr(<<Num(1)>>)]),
     Obj([k \in {"tags"} |-> Arr(<<Str("1")>>)])}

RequestOrigins ==
    {NoOrigin,
     Hdr(<<"h", "t", "t", "p", "s", ":", "/", "/", "e", "x", ".", "n", "e", "t">>),
     Hdr(<<"h", "t", "t", "p", "s", ":", "/", "/", "a", ".", "e", "x", ".", "i", "o">>),
     Hdr(<<"h", "t", "t", "p", ":", "/", "/", "l", "h", ":", "3">>),
     Hdr(<<"h", "t", "t", "p", ":", "/", "/", "x", ".", "i", "o">>)}

Request(m, p, q, xv, o, acrm, acrh, b) ==
    [path |-> p,
     origin |-> o,
     query |-> q,
     body |-> b,
     xv |-> xv,
     acrm |-> acrm,
     acrh |-> acrh,
     method |-> m]

\* The requests sent to the router.
Requests ==
    {Request(m, p, q, xv, NoOrigin, NoHdr, NoHdr, EmptyObj) :
        m \in {"GET", "get"}, p \in Paths, q \in Queries,
        xv \in VersionHeaders}
    \cup {Request("POST", p, EmptyMap, xv, NoOrigin, NoHdr, NoHdr, b) :
        p \in Paths, xv \in VersionHeaders, b \in Bodies}
    \cup {Request("OPTIONS", p, [k \in {"flag"} |-> Str("yes")], Hdr("abc"),
                  o, acrm, acrh, BadJson) :
        p \in Paths, o \in RequestOrigins,
        acrm \in {NoHdr, Hdr("GET"), Hdr("POST"), Hdr("PUT")},
        acrh \in {NoHdr, Hdr("x-v")}}

NoRequest ==
    Request("", <<>>, EmptyMap, NoHdr, NoOrigin, NoHdr, NoHdr, BadJson)

\* request.method.toUpperCase()
ToUpperCase(m) ==
    CASE m = "get" -> "GET"
      [] m = "post" -> "POST"
      [] m = "options" -> "OPTIONS"
      [] OTHER -> m

\* Object.fromEntries(context.request.headers)
HeadersObject(req) ==
    LET present ==
            (IF req.xv.has THEN {"x-v"} ELSE {})
            \cup (IF req.origin.has THEN {"origin"} ELSE {})
            \cup (IF req.acrm.has
                  THEN {"access-control-request-method"} ELSE {})
            \cup (IF req.acrh.has
                  THEN {"access-control-request-headers"} ELSE {})
    IN  Obj([k \in present |->
                CASE k = "x-v" -> Str(req.xv.v)
                  [] k = "origin" -> Str(req.origin.v)
                  [] k = "access-control-request-method" -> Str(req.acrm.v)
                  [] k = "access-control-request-headers" -> Str(req.acrh.v)])

\* Object.fromEntries(context.url.searchParams)
QueryObject(req) == Obj(req.query)


\* The args of a request factory call: {path, query, body, headers}.
Args(p, q, b, h) == [path |-> p, headers |-> h, query |-> q, body |-> b]
EmptyArgs == Args(Undef, Undef, Undef, Undef)

(***************************************************************************)
(* The state: the router's configuration, the module-level cache `seen`,   *)
(* and the one request the dispatcher is working on, with what it did.     *)
(***************************************************************************)
VARIABLES
    debug,          \* config.debug
    allowOrigins,   \* config.cors?.allowOrigins
    handlers,       \* the (route, method) pairs a handler is bound for
    seen,           \* the WeakMap of enableStringParsing
    pc,             \* "idle", "body" (awaiting request.json()), "parsed"
                    \* (parseRequestBody has resolved, the dispatcher has
                    \* not resumed yet),
                    \* "handler" (awaiting the handler) or "done"
    request,        \* the request being dispatched
    context,        \* the path, headers, query and body attached to it
    served,         \* index of the entry the loop stopped at, 0 if none
    tried,          \* the entries whose pattern was matched against the URL
    stages,         \* the parts validated, in the order they were
    invoked,        \* the entries whose handler was called
    bodyError,      \* what parseRequestBody resolved to
    handled,        \* what the handler produced
    result          \* what the dispatcher returned or threw

\* The client (createClient): its configuration, the request() call at
\* hand and what came of it.
VARIABLES
    clientBaseURL,  \* config.baseURL
    clientHeaders,  \* config.headers
    onJsonError,    \* config.onJsonError: "none" or the handler's name
    cpc,            \* "idle", "fetching" (fetch called, response awaited),
                    \* "resuming" (json is to go on after its await)
                    \* or "settled"
    calledAs,       \* what the caller called: "request", "json" or
                    \* "route" (a method of an attached route)
    via,            \* the function that call ran: "request" or "json"
    props,          \* the RouteRequest passed to request()
    syncThrow,      \* what the call itself threw, if anything
    promise,        \* the promise request() returned, and its settlement
    jsonPromise,    \* the promise json() returned, and its settlement
    fetched         \* the calls made to fetch, in order

\* The allow-origin matcher on its own: one configured origin, compiled as
\* createRouter does, and the Origin last tested against it.
VARIABLES
    allowOrigin,    \* an entry of config.cors.allowOrigins
    compiledOrigin, \* the RegExp or ExactPattern made of it
    originTest      \* the last pattern.test(origin): its input and result

\* enableStringParsing on its own, over the cache `seen`.
VARIABLES
    schemaArg,      \* the schema last passed to enableStringParsing
    schemaRet,      \* what it returned
    schemaAgain,    \* what enableStringParsing returned for schemaRet
    cacheHit        \* whether schemaArg was a key of `seen` at the call

\* The patterns createRouter compiles with config.basePath.
VARIABLES
    basePath,       \* config.basePath
    routeSource,    \* route.path.source of the declared route
    pattern,        \* patterns[key], as compiled
    urlMatch        \* the last pattern.match(url): its input and result

routerVars ==
    <<debug, allowOrigins, handlers, seen, pc, request, context, served,
      tried, stages, invoked, bodyError, handled, result>>
clientVars ==
    <<clientBaseURL, clientHeaders, onJsonError, cpc, calledAs, via, props,
      syncThrow, promise, jsonPromise, fetched>>
originVars == <<allowOrigin, compiledOrigin, originTest>>
coerceVars == <<schemaArg, schemaRet, schemaAgain, cacheHit>>
baseVars == <<basePath, routeSource, pattern, urlMatch>>

vars == <<routerVars, clientVars, originVars, coerceVars, baseVars>>

\* What the dispatcher never touches.
outsideRouter == <<clientVars, originVars, coerceVars, baseVars>>

config == <<debug, allowOrigins, handlers>>

EmptyContext ==
    [path |-> Undef, headers |-> Undef, query |-> Undef, body |-> Undef]

Pending == [kind |-> "pending"]
NoResult == [kind |-> "none"]

\* What a dispatch ends with: a returned Response, a returned undefined or a
\* thrown error.
Response(i, st, h, b) ==
    [kind |-> "response",
     id |-> i,
     headers |-> h,
     body |-> b,
     status |-> st]
ReturnedUndefined == [kind |-> "undefined"]
Thrown(e) == [kind |-> "throw", error |-> e]

NullBody == [kind |-> "null"]
NoHeaders == [k \in {} |-> <<>>]
JsonHeaders == [k \in {"content-type"} |-> <<"application/json">>]

\* Errors: the error of a failed safeParse (a $ZodError of zod/mini), or
\* the SyntaxError of a body that is not JSON.
NoError == [issues |-> <<>>, name |-> "none"]
ZodError(is) == [issues |-> is, name |-> "$ZodError"]
SyntaxError == [issues |-> <<>>, name |-> "SyntaxError"]

\* The own enumerable properties of an error that `...error` copies, its
\* message aside: a zod error has its name (its issues are not enumerable),
\* an error of the platform has none.
OwnProperties(e) ==
    IF e.name = "$ZodError" THEN [k \in {"name"} |-> e.name]
    ELSE [k \in {} |-> ""]

\* The text of a list of issues: for each issue its code and its path.
RECURSIVE IssuesText(_)
IssuesText(is) ==
    IF is = <<>> THEN <<>>
    ELSE <<Head(is).code>> \o Head(is).path \o <<";">>
             \o IssuesText(Tail(is))

\* error.message: for a zod error the text of its issues.
ErrorMessage(e) ==
    IF e.name = "SyntaxError" THEN <<"Unexpected token in JSON">>
    ELSE IssuesText(e.issues)

\* JSON.stringify(value) followed by reading it back: what the receiver of
\* the body sees.  NaN is written as null, undefined is not serializable.
RECURSIVE JsonValue(_)
JsonValue(v) ==
    CASE v.kind = "nan" -> Null
      [] v.kind = "obj" ->
            Obj([k \in {j \in DOMAIN v.props : v.props[j] # Undef} |->
                    JsonValue(v.props[k])])
      [] v.kind = "arr" ->
            Arr([n \in 1..Len(v.items) |->
                    IF v.items[n] = Undef THEN Null
                    ELSE JsonValue(v.items[n])])
      [] OTHER -> v

\* Response.json(data): a TypeError when data has no JSON serialization.
ResponseJson(data) ==
    IF data = Undef
    THEN Thrown(<<"TypeError: Value is not JSON serializable">>)
    ELSE Response("new", 200, JsonHeaders,
                  [kind |-> "json", val |-> JsonValue(data)])

\* The message of a 400: generic, or annotated with the error in debug mode.
ClientErrorMessage(error, message, dbg) ==
    IF dbg THEN <<message, ": ">> \o ErrorMessage(error) ELSE <<message>>

\* Response.json({ ...error, message }, { status: 400 })
httpClientError(error, message, dbg) ==
    Response("new", 400, JsonHeaders,
             [kind |-> "error",
              message |-> ClientErrorMessage(error, message, dbg),
              own |-> OwnProperties(error)])

\* The parse functions return the error (NoError for null) and the context
\* with the validated part attached.
ParseResult(r, ctx) ==
    [error |-> IF r.success THEN NoError ELSE ZodError(r.issues),
     ctx |-> ctx]

parsePathParams(ctx, schema, params) ==
    LET r == SafeParse(schema, Obj(params))
    IN  ParseResult(r, IF r.success THEN [ctx EXCEPT !.path = r.data] ELSE ctx)

parseHeaders(ctx, schema, req) ==
    LET r == SafeParse(schema, HeadersObject(req))
    IN  ParseResult(r,
                    IF r.success THEN [ctx EXCEPT !.headers = r.data] ELSE ctx)

parseQueryString(ctx, schema, req) ==
    LET r == SafeParse(schema, QueryObject(req))
    IN  ParseResult(r,
                    IF r.success THEN [ctx EXCEPT !.query = r.data] ELSE ctx)

\* parseRequestBody given the body schema through enableStringParsing, as
\* the other parts are.
parseRequestBodyCoerced(ctx, schema, req) ==
    IF req.body = BadJson
    THEN [error |-> SyntaxError, ctx |-> ctx]
    ELSE LET r == SafeParse(enableStringParsing(schema, <<>>).schema, req.body)
         IN  ParseResult(r,
                 IF r.success THEN [ctx EXCEPT !.body = r.data] ELSE ctx)

\* The continuation of parseRequestBody once request.json() has settled.
parseRequestBody(ctx, schema, req) ==
    IF req.body = BadJson
    THEN [error |-> SyntaxError, ctx |-> ctx]
    ELSE LET r == SafeParse(schema, req.body)
         IN  ParseResult(r,
                 IF r.success THEN [ctx EXCEPT !.body = r.data] ELSE ctx)


(***************************************************************************)
(* The dispatcher: the async function createRouter passes to               *)
(* middlewares.use.                                                        *)
(***************************************************************************)
\* method === 'OPTIONS', after request.method.toUpperCase()
IsPreflight(req) == ToUpperCase(req.method) = "OPTIONS"

\* MethodOf with another default for a preflight without
\* Access-Control-Request-Method.
MethodOfDefaultPost(req) ==
    IF IsPreflight(req)
    THEN IF req.acrm.has THEN req.acrm.v ELSE "POST"
    ELSE ToUpperCase(req.method)

\* The method routes are looked up by: for a preflight, the one named by
\* Access-Control-Request-Method, GET when the header is absent.
MethodOf(req) ==
    IF IsPreflight(req)
    THEN IF req.acrm.has THEN req.acrm.v ELSE "GET"
    ELSE ToUpperCase(req.method)

\* config.routes[key].methods[method] is defined
Declares(key, method) == method \in DOMAIN Routes[key].methods

\* The handler lookup left out.
HandlerOfAlways(hs, key, method) == "handler"

\* handlers[key][method]: a handler, undefined, or the TypeError of reading
\* a property of undefined when the handlers have no object for the route.
HandlerOf(hs, key, method) ==
    IF key \notin DOMAIN hs THEN "TypeError"
    ELSE IF method \in hs[key] THEN "handler"
    ELSE "undefined"

RECURSIVE Scan(_, _, _, _)

\* The loop with `continue` at a missing handler in debug mode too.
ScanSkipUnbound(i, method, path, seq) ==
    IF i > Len(keys)
    THEN [kind |-> "end", tried |-> seq, idx |-> 0]
    ELSE IF ~Declares(keys[i], method)
    THEN Scan(i + 1, method, path, seq)
    ELSE IF ~PatternMatch(Routes[keys[i]].path, path).ok
    THEN Scan(i + 1, method, path, Append(seq, i))
    ELSE IF HandlerOf(handlers, keys[i], method) = "TypeError"
    THEN [kind |-> "typeerror", tried |-> Append(seq, i), idx |-> i]
    ELSE IF HandlerOf(handlers, keys[i], method) = "undefined"
    THEN Scan(i + 1, method, path, Append(seq, i))
    ELSE [kind |-> "found", tried |-> Append(seq, i), idx |-> i]

\* The loop taking the last entry that can serve instead of the first.
ScanLast(i, method, path, seq) ==
    IF i > Len(keys)
    THEN [kind |-> "end", tried |-> seq, idx |-> 0]
    ELSE LET rest == Scan(i + 1, method, path,
                          IF Declares(keys[i], method)
                          THEN Append(seq, i) ELSE seq)
         IN  IF rest.kind = "found" THEN rest
             ELSE IF /\ Declares(keys[i], method)
                     /\ PatternMatch(Routes[keys[i]].path, path).ok
                     /\ HandlerOf(handlers, keys[i], method) = "handler"
             THEN [kind |-> "found", tried |-> rest.tried, idx |-> i]
             ELSE rest

\* The for loop of the dispatcher from entry i on, up to the entry it stops
\* at: "found" when an entry declares the method, matches the URL and has a
\* handler; "throw" for a missing handler in debug mode; "typeerror" when
\* the handlers have no object for the route of the entry; "end" when the
\* loop runs out of entries.  `seq` collects the entries whose pattern was
\* matched against the URL.
Scan(i, method, path, seq) ==
    IF i > Len(keys)
    THEN [kind |-> "end", tried |-> seq, idx |-> 0]
    ELSE IF ~Declares(keys[i], method)
    THEN Scan(i + 1, method, path, seq)
    ELSE IF ~PatternMatch(Routes[keys[i]].path, path).ok
    THEN Scan(i + 1, method, path, Append(seq, i))
    ELSE IF HandlerOf(handlers, keys[i], method) = "TypeError"
    THEN [kind |-> "typeerror", tried |-> Append(seq, i), idx |-> i]
    ELSE IF HandlerOf(handlers, keys[i], method) = "undefined"
    THEN IF debug
         THEN [kind |-> "throw", tried |-> Append(seq, i), idx |-> i]
         ELSE Scan(i + 1, method, path, Append(seq, i))
    ELSE [kind |-> "found", tried |-> Append(seq, i), idx |-> i]

\* allowOrigins.some(pattern => pattern.test(origin))
SomePatternTest(list, origin) ==
    \E n \in 1..Len(list) : PatternTest(CompileOrigin(list[n]), origin)

\* The origin check letting a request without Origin through.
OriginForbiddenOnlyIfPresent(allow, origin) ==
    /\ allow.defined
    /\ origin.has
    /\ ~SomePatternTest(allow.list, origin.v)

\* The origin check of a preflight: whether the request is refused.
OriginForbidden(allow, origin) ==
    /\ allow.defined
    /\ ~(origin.has /\ origin.v # <<>> /\ SomePatternTest(allow.list, origin.v))

\* The preflight response with a constant Access-Control-Allow-Origin.
PreflightResponseAnyOrigin(allow, req, method) ==
    IF OriginForbidden(allow, req.origin)
    THEN Response("new", 403, NoHeaders, NullBody)
    ELSE Response("new", 200,
                  ("access-control-allow-origin" :> <<"*">>)
                  @@ ("access-control-allow-methods" :> <<method>>)
                  @@ ("access-control-allow-headers" :>
                       (IF req.acrh.has THEN <<req.acrh.v>> ELSE <<>>)),
                  NullBody)

\* The response to a preflight for a matched entry.
PreflightResponse(allow, req, method) ==
    IF OriginForbidden(allow, req.origin)
    THEN Response("new", 403, NoHeaders, NullBody)
    ELSE Response("new", 200,
                  ("access-control-allow-origin" :>
                       (IF req.origin.has THEN req.origin.v ELSE <<"*">>))
                  @@ ("access-control-allow-methods" :> <<method>>)
                  @@ ("access-control-allow-headers" :>
                       (IF req.acrh.has THEN <<req.acrh.v>> ELSE <<>>)),
                  NullBody)

\* What the stages run before the first await leave behind.
Validated(ctx, cache, st, err, msg) ==
    [seen |-> cache,
     stages |-> st,
     error |-> err,
     message |-> msg,
     ctx |-> ctx]

\* The query stage with its error dropped.
ValidateQueryUnchecked(route, req, ctx, cache, st) ==
    IF route.query # NoSchema
    THEN LET e == enableStringParsing(route.query, cache)
             r == parseQueryString(ctx, e.schema, req)
         IN  Validated(r.ctx, e.seen, Append(st, "query"), NoError, "")
    ELSE Validated(ctx, cache, st, NoError, "")

ValidateQuery(route, req, ctx, cache, st) ==
    IF route.query # NoSchema
    THEN LET e == enableStringParsing(route.query, cache)
             r == parseQueryString(ctx, e.schema, req)
         IN  Validated(r.ctx, e.seen, Append(st, "query"), r.error,
                       "Invalid query string")
    ELSE Validated(ctx, cache, st, NoError, "")

\* The headers stage not returning on its error.
ValidateHeadersNoReturn(route, req, ctx, cache, st) ==
    IF route.headers # NoSchema
    THEN LET e == enableStringParsing(route.headers, cache)
             r == parseHeaders(ctx, e.schema, req)
         IN  ValidateQuery(route, req, r.ctx, e.seen, Append(st, "headers"))
    ELSE ValidateQuery(route, req, ctx, cache, st)

ValidateHeaders(route, req, ctx, cache, st) ==
    IF route.headers # NoSchema
    THEN LET e == enableStringParsing(route.headers, cache)
             r == parseHeaders(ctx, e.schema, req)
         IN  IF r.error # NoError
             THEN Validated(r.ctx, e.seen, Append(st, "headers"), r.error,
                            "Invalid request headers")
             ELSE ValidateQuery(route, req, r.ctx, e.seen,
                                Append(st, "headers"))
    ELSE ValidateQuery(route, req, ctx, cache, st)

\* The stages from route.path on, for the captured params of the match.
ValidatePath(route, req, params, ctx, cache) ==
    IF route.path # NoSchema
    THEN LET e == enableStringParsing(route.path, cache)
             r == parsePathParams(ctx, e.schema, params)
         IN  IF r.error # NoError
             THEN Validated(r.ctx, e.seen, <<"path">>, r.error,
                            "Invalid path parameter")
             ELSE ValidateHeaders(route, req, r.ctx, e.seen, <<"path">>)
    ELSE ValidateHeaders(route, req, [ctx EXCEPT !.path = Obj(params)],
                         cache, <<>>)

\* The entry the dispatcher stopped at, and the schemas of its method.
ServedRoute(i, req) == Routes[keys[i]].methods[MethodOf(req)]

\* No request is being dispatched.
RouterAtRest ==
    /\ seen = [k \in {} |-> NoSchema]
    /\ pc = "idle"
    /\ request = NoRequest
    /\ context = EmptyContext
    /\ served = 0
    /\ tried = <<>>
    /\ stages = <<>>
    /\ invoked = <<>>
    /\ bodyError = NoError
    /\ handled = NoResult
    /\ result = Pending

\* A router without handlers that is sent nothing.
NoRouter ==
    /\ debug = FALSE
    /\ allowOrigins = [defined |-> FALSE, list |-> <<>>]
    /\ handlers = [k \in {} |-> {}]
    /\ RouterAtRest

\* No client was created.
NoClient ==
    /\ clientBaseURL = [path |-> <<>>, origin |-> "", absolute |-> FALSE]
    /\ clientHeaders = Undef
    /\ onJsonError = "none"
    /\ cpc = "idle"
    /\ calledAs = "none"
    /\ via = "none"
    /\ jsonPromise = [kind |-> "none",
                      value |-> Undef,
                      response |-> [body |-> Undef, status |-> 0],
                      error |-> [issues |-> <<>>,
                                 name |-> "",
                                 message |-> <<"">>],
                      state |-> "none"]
    /\ props = [path |-> [origin |-> "", segs |-> <<>>],
                schema |-> MethodSchema(NoSchema, NoSchema, NoSchema, NoSchema),
                method |-> "",
                args |-> EmptyArgs]
    /\ syncThrow = [issues |-> <<>>, name |-> "", message |-> <<"">>]
    /\ promise = [response |-> [body |-> Undef, status |-> 0],
                  error |-> [issues |-> <<>>, name |-> "", message |-> <<"">>],
                  state |-> "none"]
    /\ fetched = <<>>

\* No origin is compiled on its own.
NoOriginTest ==
    /\ allowOrigin = <<>>
    /\ compiledOrigin = [exact |-> TRUE, value |-> <<>>]
    /\ originTest = [input |-> <<>>, done |-> FALSE, ok |-> FALSE]

\* No schema is coerced on its own.
NoCoercion ==
    /\ schemaArg = NoSchema
    /\ schemaRet = NoSchema
    /\ schemaAgain = NoSchema
    /\ cacheHit = FALSE

\* No pattern is compiled on its own.
NoBasePath ==
    /\ basePath = [str |-> <<>>, defined |-> FALSE]
    /\ routeSource = <<>>
    /\ pattern = <<>>
    /\ urlMatch = [path |-> <<>>, done |-> FALSE, ok |-> FALSE]

Init ==
    /\ debug \in BOOLEAN
    /\ allowOrigins \in AllowOriginsConfigs
    /\ handlers \in HandlerSets
    /\ RouterAtRest
    /\ NoClient /\ NoOriginTest /\ NoCoercion /\ NoBasePath

\* The TypeError of handlers[keys[i]][method] when handlers[keys[i]] is
\* undefined.
ReadOfUndefined(method) ==
    Thrown(<<"TypeError: Cannot read properties of undefined (reading '",
             method, "')">>)

\* A request arrives: the dispatcher runs up to its first await or return.
Dispatch(req) ==
    /\ pc = "idle"
    /\ request' = req
    /\ bodyError' = NoError
    /\ handled' = NoResult
    /\ LET method == MethodOf(req)
           s == Scan(1, method, req.path, <<>>)
       IN  /\ tried' = s.tried
           /\ served' = s.idx
           /\ CASE s.kind = "end" ->
                     /\ result' = ReturnedUndefined
                     /\ pc' = "done"
                     /\ UNCHANGED <<seen, context, stages, invoked>>
                [] s.kind = "throw" ->
                     /\ result' = Thrown(<<"Handler not found for route: ",
                                           keys[s.idx], " ", method>>)
                     /\ pc' = "done"
                     /\ UNCHANGED <<seen, context, stages, invoked>>
                [] s.kind = "typeerror" ->
                     /\ result' = ReadOfUndefined(method)
                     /\ pc' = "done"
                     /\ UNCHANGED <<seen, context, stages, invoked>>
                [] s.kind = "found" /\ IsPreflight(req) ->
                     /\ result' = PreflightResponse(allowOrigins, req, method)
                     /\ pc' = "done"
                     /\ UNCHANGED <<seen, context, stages, invoked>>
                [] s.kind = "found" /\ ~IsPreflight(req) ->
                     LET route == ServedRoute(s.idx, req)
                         match == PatternMatch(Routes[keys[s.idx]].path,
                                               req.path)
                         v == ValidatePath(route, req, match.params, context,
                                           seen)
                     IN  /\ seen' = v.seen
                         /\ context' = v.ctx
                         /\ IF v.error # NoError
                            THEN /\ result' = httpClientError(v.error,
                                                  v.message, debug)
                                 /\ pc' = "done"
                                 /\ stages' = v.stages
                                 /\ invoked' = invoked
                            ELSE IF route.body # NoSchema
                            THEN /\ result' = Pending
                                 /\ pc' = "body"
                                 /\ stages' = Append(v.stages, "body")
                                 /\ invoked' = invoked
                            ELSE /\ result' = Pending
                                 /\ pc' = "handler"
                                 /\ stages' = v.stages
                                 /\ invoked' = Append(invoked, s.idx)
    /\ UNCHANGED <<config, outsideRouter>>

\* request.json() settles: parseRequestBody validates the body, attaches it
\* to the context when it is valid, and resolves to the error or null.
BodySettled ==
    /\ pc = "body"
    /\ LET route == ServedRoute(served, request)
           r == parseRequestBody(context, route.body, request)
       IN  /\ context' = r.ctx
           /\ bodyError' = r.error
    /\ pc' = "parsed"
    /\ UNCHANGED <<config, seen, request, served, tried, stages, invoked,
                   handled, result, outsideRouter>>

\* The dispatcher resumes after `await parseRequestBody(...)`: it returns
\* the 400 of the error, or calls the handler.
BodyAwaited ==
    /\ pc = "parsed"
    /\ IF bodyError # NoError
       THEN /\ result' = httpClientError(bodyError, "Invalid request body",
                                         debug)
            /\ pc' = "done"
            /\ invoked' = invoked
       ELSE /\ result' = Pending
            /\ pc' = "handler"
            /\ invoked' = Append(invoked, served)
    /\ UNCHANGED <<config, seen, request, context, served, tried, stages,
                   bodyError, handled, outsideRouter>>

\* What a handler may do: return a Response, return a value, return
\* nothing, or throw.
RawResponse ==
    Response("raw", 201, [k \in {"x-made-by"} |-> <<"handler">>],
             [kind |-> "text", val |-> Str("created")])

HandlerOutcomes ==
    {RawResponse,
     Obj([k \in {"message"} |-> Str("Hello, world.")]),
     Str("ok"),
     Undef,
     Thrown(<<"handler failed">>)}

\* The result of the handler, normalized: `result instanceof Response` is
\* returned as it is, anything else through Response.json.
Normalize(out) ==
    IF out.kind = "throw" THEN out
    ELSE IF out.kind = "response" THEN out
    ELSE ResponseJson(out)

\* The awaited handler settles.
HandlerSettled(out) ==
    /\ pc = "handler"
    /\ handled' = out
    /\ result' = Normalize(out)
    /\ pc' = "done"
    /\ UNCHANGED <<config, seen, request, context, served, tried, stages,
                   invoked, bodyError, outsideRouter>>

\* The dispatch is over; the router is ready for the next request.  The
\* cache outlives the request.
Finish ==
    /\ pc = "done"
    /\ pc' = "idle"
    /\ request' = NoRequest
    /\ context' = EmptyContext
    /\ served' = 0
    /\ tried' = <<>>
    /\ stages' = <<>>
    /\ invoked' = <<>>
    /\ bodyError' = NoError
    /\ handled' = NoResult
    /\ result' = Pending
    /\ UNCHANGED <<config, seen, outsideRouter>>

Next ==
    \/ \E req \in Requests : Dispatch(req)
    \/ BodySettled
    \/ BodyAwaited
    \/ \E out \in HandlerOutcomes : HandlerSettled(out)
    \/ Finish

Spec == Init /\ [][Next]_vars


(***************************************************************************)
(* The client (createClient).  A URL path string is a sequence of tokens:  *)
(* "/" and the segments between slashes, so that "/api/hello" is           *)
(* <<"/", "api", "/", "hello">>.  A URL object holds its origin and the    *)
(* list of its path segments, as the URL standard does: "/" is <<"">>,     *)
(* "/api/" is <<"api", "">> and "//hello" is <<"", "hello">>.              *)
(***************************************************************************)
\* The decimal digits of a number, for the numbers in use.
StringOfNumber(n) ==
    CASE n = 0 -> "0"
      [] n = 1 -> "1"
      [] n = 7 -> "7"
      [] n = 42 -> "42"

\* String(value), for the values given as path and query parameters.
StringOf(v) ==
    CASE v.kind = "str" -> v.str
      [] v.kind = "bool" -> (IF v.bool THEN "true" ELSE "false")
      [] v.kind = "num" -> StringOfNumber(v.num)
      [] v.kind = "nan" -> "NaN"
      [] v.kind = "undef" -> "undefined"
      [] v.kind = "null" -> "null"

\* An error object: its name, its message (a list of pieces of text) and,
\* for a zod error, its issues.
Error(n, m) == [issues |-> <<>>, name |-> n, message |-> <<m>>]

\* The error schema.parse throws: a $ZodError whose message is the text of
\* its issues.
ParseError(is) == [issues |-> is,
                   name |-> "$ZodError",
                   message |-> IssuesText(is)]

\* schema.parse(value): the data, or the $ZodError thrown.
Parse(schema, v) ==
    LET r == SafeParse(schema, v)
    IN  IF r.success THEN [data |-> r.data,
                           ok |-> TRUE,
                           error |-> Error("", "")]
        ELSE [data |-> Undef, ok |-> FALSE, error |-> ParseError(r.issues)]

\* The patterns of the routes the client calls: the declared routes, whose
\* patterns are pathnames, and one whose pattern names its own origin.
PathBuilder(o, segs) == [origin |-> o, segs |-> segs]

ClientRouteKeys == {"hello", "item", "any", "cdn"}

cdnMethods == [GET |-> MethodSchema(itemPath, NoSchema, NoSchema, NoSchema)]

ClientPath(key) ==
    IF key = "cdn" THEN PathBuilder("https://cdn.io", <<Lit("files"), Param("id")>>)
    ELSE PathBuilder("", Routes[key].path)

ClientMethods(key) ==
    IF key = "cdn" THEN cdnMethods ELSE Routes[key].methods

\* route[method](args): the RouteRequest made by the request factory.
RouteRequest(key, method, args) ==
    [path |-> ClientPath(key),
     schema |-> ClientMethods(key)[method],
     method |-> method,
     args |-> args]

NoProps ==
    [path |-> PathBuilder("", <<>>),
     schema |-> MethodSchema(NoSchema, NoSchema, NoSchema, NoSchema),
     method |-> "",
     args |-> EmptyArgs]

\* pathBuilder.href(params): the origin of the pattern, if it has one, and
\* the path with every :param replaced; an error when a param is missing.
RECURSIVE HrefTokens(_, _)
HrefTokens(segs, params) ==
    IF segs = <<>> THEN <<>>
    ELSE <<"/", IF Head(segs).seg = "lit" THEN Head(segs).name
                ELSE StringOf(Prop(params, Head(segs).name))>>
             \o HrefTokens(Tail(segs), params)

Href(builder, params) ==
    IF \E n \in 1..Len(builder.segs) :
          /\ builder.segs[n].seg = "param"
          /\ \/ params.kind # "obj"
             \/ Prop(params, builder.segs[n].name) \in {Undef, Null}
    THEN [path |-> <<>>, ok |-> FALSE, origin |-> ""]
    ELSE [path |-> HrefTokens(builder.segs, params),
          ok |-> TRUE,
          origin |-> builder.origin]

\* The path segments of a path string (the URL parser's path state).
RECURSIVE SplitSegments(_, _)
SplitSegments(tokens, cur) ==
    IF tokens = <<>> THEN <<cur>>
    ELSE IF Head(tokens) = "/"
    THEN <<cur>> \o SplitSegments(Tail(tokens), "")
    ELSE SplitSegments(Tail(tokens), cur \o Head(tokens))

Segments(tokens) ==
    IF tokens # <<>> /\ Head(tokens) = "/"
    THEN SplitSegments(Tail(tokens), "")
    ELSE SplitSegments(tokens, "")

\* url.pathname: the path segments serialized, each after a slash.
RECURSIVE Pathname(_)
Pathname(segs) ==
    IF segs = <<>> THEN <<>>
    ELSE (IF Head(segs) = "" THEN <<"/">> ELSE <<"/", Head(segs)>>)
             \o Pathname(Tail(segs))

\* The base URLs a client is configured with.  `absolute` is whether the
\* string has a scheme and a host; `path` is what follows the host.
BaseURL(a, o, p) == [path |-> p, origin |-> o, absolute |-> a]

BaseURLs ==
    {BaseURL(TRUE, "https://ex.io", <<>>),
     BaseURL(TRUE, "https://ex.io", <<"/">>),
     BaseURL(TRUE, "https://ex.io", <<"/", "api">>),
     BaseURL(TRUE, "https://ex.io", <<"/", "api", "/">>),
     BaseURL(FALSE, "", <<"/", "api", "/">>)}

\* config.baseURL.replace(/\/$/, '')
StripTrailingSlash(base) ==
    IF base.path # <<>> /\ base.path[Len(base.path)] = "/"
    THEN [base EXCEPT !.path = SubSeq(base.path, 1, Len(base.path) - 1)]
    ELSE base

URL(o, segs, q) == [origin |-> o, pathname |-> segs, search |-> q]
NoSearch == [k \in {} |-> ""]
NoURL == URL("", <<>>, NoSearch)

\* The URL the request is sent to, before its search is set: new
\* URL(baseURL) with the href appended to its pathname when the href starts
\* with a slash, new URL(href) otherwise.  new URL throws for a string that
\* is not an absolute URL.
ResolveURL(base, href) ==
    IF href.origin = ""
    THEN LET b == StripTrailingSlash(base)
         IN  IF ~b.absolute
             THEN [ok |-> FALSE, url |-> NoURL]
             ELSE [ok |-> TRUE,
                   url |-> URL(b.origin,
                               Segments(Pathname(Segments(b.path))
                                            \o href.path),
                               NoSearch)]
    ELSE [ok |-> TRUE, url |-> URL(href.origin, Segments(href.path), NoSearch)]

\* Whether a value counts as true in a condition.
Truthy(v) ==
    v \notin {Undef, Null, NaN, Bool(FALSE), Num(0), Str("")}

\* new URLSearchParams(query): every value as a string.
SearchParams(query) ==
    [k \in DOMAIN query.props |-> StringOf(query.props[k])]

\* shake(obj): the entries whose value is not undefined.
shake(obj) ==
    Obj([k \in {j \in DOMAIN obj.props : obj.props[j] # Undef} |->
            obj.props[k]])

\* {...a, ...b}
Spread(a, b) ==
    Obj([k \in DOMAIN a \cup DOMAIN b |-> IF k \in DOMAIN b THEN b[k] ELSE a[k]])

\* Own properties spread from a value: none from undefined.
Own(v) == IF v.kind = "obj" THEN v.props ELSE EmptyMap

\* The merge with the per-call headers spread as they are.
MergeHeadersUnshaken(defaults, headers) ==
    IF defaults # Undef \/ headers # Undef
    THEN Spread(Own(defaults), Own(headers))
    ELSE headers

\* The headers of the call: config.headers overlaid by the shaken per-call
\* headers, when either is given.
MergeHeaders(defaults, headers) ==
    IF defaults # Undef \/ headers # Undef
    THEN Spread(Own(defaults),
                IF headers # Undef THEN shake(headers).props ELSE EmptyMap)
    ELSE headers

\* What the body of request() comes to: a call to fetch, or an error thrown
\* on the way to it.
FetchCall(url, method, body, headers) ==
    [headers |-> headers, body |-> body, method |-> method, url |-> url]
NoFetch == FetchCall(NoURL, "", Undef, Undef)
Fetches(call) == [kind |-> "fetch", error |-> Error("", ""), call |-> call]
Throws(e) == [kind |-> "throw", error |-> e, call |-> NoFetch]

\* The headers stage and the call to fetch.
RequestHeaders(cfgHeaders, p, url, body) ==
    LET merged == MergeHeaders(cfgHeaders, p.args.headers)
        parsed == Parse(p.schema.headers, merged)
    IN  IF p.schema.headers # NoSchema /\ ~parsed.ok
        THEN Throws(parsed.error)
        ELSE Fetches(FetchCall(url, p.method,
                 IF body # Undef THEN JsonValue(body) ELSE Undef,
                 IF p.schema.headers # NoSchema THEN parsed.data ELSE merged))

\* The body stage without the check for a body the method does not
\* declare.
RequestBodyUnchecked(cfgHeaders, p, url) ==
    IF p.schema.body # NoSchema
    THEN LET parsed == Parse(p.schema.body,
                             IF p.args.body # Undef THEN p.args.body
                             ELSE EmptyObj)
         IN  IF ~parsed.ok THEN Throws(parsed.error)
             ELSE RequestHeaders(cfgHeaders, p, url, parsed.data)
    ELSE RequestHeaders(cfgHeaders, p, url, p.args.body)

\* The body stage.
RequestBody(cfgHeaders, p, url) ==
    IF p.schema.body # NoSchema
    THEN LET parsed == Parse(p.schema.body,
                             IF p.args.body # Undef THEN p.args.body
                             ELSE EmptyObj)
         IN  IF ~parsed.ok THEN Throws(parsed.error)
             ELSE RequestHeaders(cfgHeaders, p, url, parsed.data)
    ELSE IF p.args.body # Undef
    THEN Throws(Error("Error", "Unexpected body"))
    ELSE RequestHeaders(cfgHeaders, p, url, p.args.body)

\* The query stage: `query ?? {}` is validated and becomes the search of
\* the URL; a query the method does not declare is an error when truthy.
RequestQuery(cfgHeaders, p, url) ==
    IF p.schema.query # NoSchema
    THEN LET parsed == Parse(p.schema.query,
                             IF p.args.query \in {Undef, Null} THEN EmptyObj
                             ELSE p.args.query)
         IN  IF ~parsed.ok THEN Throws(parsed.error)
             ELSE RequestBody(cfgHeaders, p,
                      [url EXCEPT !.search = SearchParams(parsed.data)])
    ELSE IF Truthy(p.args.query)
    THEN Throws(Error("Error", "Unexpected query parameters"))
    ELSE RequestBody(cfgHeaders, p, url)

\* The body of request(), from the path stage on.
RequestOutcome(base, cfgHeaders, p) ==
    LET parsed == Parse(p.schema.path, p.args.path)
        path == IF p.schema.path # NoSchema THEN parsed.data ELSE p.args.path
        href == Href(p.path, path)
        resolved == ResolveURL(base, href)
    IN  IF p.schema.path # NoSchema /\ ~parsed.ok THEN Throws(parsed.error)
        ELSE IF ~href.ok
        THEN Throws(Error("MissingParamError", "Missing required parameter"))
        ELSE IF ~resolved.ok THEN Throws(Error("TypeError", "Invalid URL"))
        ELSE RequestQuery(cfgHeaders, p, resolved.url)

\* What calling request(props) leaves the caller with: the error the call
\* threw, if it threw, and the promise it returned.
NoThrow == Error("", "")
ClientResponse(st, b) == [body |-> b, status |-> st]
NoResponse == ClientResponse(0, Undef)
Promise(st, e, r) == [response |-> r, error |-> e, state |-> st]
NoPromise == Promise("none", NoThrow, NoResponse)
Called(t, pr) == [promise |-> pr, thrown |-> t]

\* request as a function that is not async: its error is thrown by the
\* call and no promise is returned.
SyncCall(out) ==
    IF out.kind = "throw" THEN Called(out.error, NoPromise)
    ELSE Called(NoThrow, Promise("pending", NoThrow, NoResponse))

\* request is an async function: the call returns a promise whatever its
\* body does, rejected with the error the body threw, or following the
\* promise of fetch.
AsyncCall(out) ==
    IF out.kind = "throw"
    THEN Called(NoThrow, Promise("rejected", out.error, NoResponse))
    ELSE Called(NoThrow, Promise("pending", NoThrow, NoResponse))

\* The arguments the request factories are called with.
PathArgs ==
    {Obj([k \in {"name"} |-> Str("world")]),
     Obj([k \in {"id"} |-> Num(7)]),
     Obj([k \in {"id"} |-> Str("abc")]),
     Obj([k \in {"kind", "slug"} |-> IF k = "kind" THEN Str("a") ELSE Str("b")])}

QueryArgs ==
    {Undef, EmptyObj, Str(""),
     Obj([k \in {"flag"} |-> Bool(TRUE)]),
     Obj([k \in {"flag"} |-> Str("yes")]),
     Obj([k \in {"excited"} |-> Undef])}

BodyArgs ==
    {Undef,
     Obj([k \in {"title"} |-> Str("x")]),
     Obj([k \in {"title"} |-> Num(1)])}

HeaderArgs ==
    {Undef,
     Obj([k \in {"x-v"} |-> Num(1)]),
     Obj([k \in {"x-v"} |-> Undef]),
     Obj([k \in {"x-v", "authorization"} |->
             IF k = "x-v" THEN Num(1) ELSE Undef])}

\* config.headers
DefaultHeaders ==
    {Undef,
     Obj([k \in {"authorization"} |-> Str("tok")]),
     Obj([k \in {"authorization", "x-v"} |->
             IF k = "x-v" THEN Str("0") ELSE Str("tok")])}

ClientCalls ==
    UNION {{RouteRequest(key, m, Args(pa, q, b, h)) :
               m \in DOMAIN ClientMethods(key), pa \in PathArgs,
               q \in QueryArgs, b \in BodyArgs, h \in HeaderArgs} :
           key \in ClientRouteKeys}

\* What the network answers a fetch with: JSON bodies, and one body that
\* is no JSON text.
NetworkResponses ==
    {ClientResponse(200, Obj([k \in {"message"} |-> Str("Hello, world.")])),
     ClientResponse(400, Obj([k \in {"message"} |-> Str("Invalid query string")])),
     ClientResponse(502, BadJson)}

\* config.onJsonError: absent, a handler that returns the response it is
\* given, or a handler that throws.
JsonErrorHandlers == {"none", "return", "throw"}

\* The promise of json(): how it settled, whether through the handler
\* ("handled") or through response.json() ("decoded"), and with what.
JsonPromise(st, e, k, v, r) ==
    [kind |-> k, value |-> v, response |-> r, error |-> e, state |-> st]
NoJsonPromise == JsonPromise("none", NoThrow, "none", Undef, NoResponse)

\* response.ok
ResponseOk(resp) == resp.status \in 200..299

\* response.json(): the body read as JSON, or a SyntaxError.
ResponseBodyJson(resp) ==
    IF resp.body = BadJson
    THEN JsonPromise("rejected",
                     Error("SyntaxError", "Unexpected token in JSON"),
                     "decoded", Undef, NoResponse)
    ELSE JsonPromise("fulfilled", NoThrow, "decoded", JsonValue(resp.body),
                     NoResponse)

\* config.onJsonError(response)
CallOnJsonError(handler, resp) ==
    IF handler = "throw"
    THEN JsonPromise("rejected", Error("Error", "Request failed"), "handled",
                     Undef, resp)
    ELSE JsonPromise("fulfilled", NoThrow, "handled", Undef, resp)

\* json with the test of response.ok left out: the handler is given every
\* response.
jsonAnyStatus(handler, pr) ==
    IF pr.state = "rejected"
    THEN JsonPromise("rejected", pr.error, "none", Undef, NoResponse)
    ELSE IF handler # "none" THEN CallOnJsonError(handler, pr.response)
    ELSE ResponseBodyJson(pr.response)

\* json, from the settlement of the promise of request(props) on.
json(handler, pr) ==
    IF pr.state = "rejected"
    THEN JsonPromise("rejected", pr.error, "none", Undef, NoResponse)
    ELSE IF ~ResponseOk(pr.response) /\ handler # "none"
    THEN CallOnJsonError(handler, pr.response)
    ELSE ResponseBodyJson(pr.response)

\* connectRoute: the function a method of an attached route calls.
connectRoute(schema) == IF Truthy(schema.response) THEN "json" ELSE "request"

\* The arguments json and the methods of the attached routes are called
\* with: every path, and a query, a body and headers given or not.
WrappedArgs ==
    {Args(pa, q, b, h) :
        pa \in PathArgs,
        q \in {Undef, Obj([k \in {"flag"} |-> Bool(TRUE)])},
        b \in {Undef, Obj([k \in {"title"} |-> Str("x")])},
        h \in {Undef, Obj([k \in {"x-v"} |-> Num(1)])}}

JsonCalls ==
    UNION {{RouteRequest(key, m, a) :
               m \in DOMAIN ClientMethods(key), a \in WrappedArgs} :
           key \in ClientRouteKeys}

RouteCalls ==
    UNION {{<<key, m, a>> :
               m \in DOMAIN ClientMethods(key), a \in WrappedArgs} :
           key \in ClientRouteKeys}

ClientInit ==
    /\ clientBaseURL \in BaseURLs
    /\ clientHeaders \in DefaultHeaders
    /\ onJsonError \in JsonErrorHandlers
    /\ cpc = "idle"
    /\ calledAs = "none"
    /\ via = "none"
    /\ props = NoProps
    /\ syncThrow = NoThrow
    /\ promise = NoPromise
    /\ jsonPromise = NoJsonPromise
    /\ fetched = <<>>
    /\ NoRouter /\ NoOriginTest /\ NoCoercion /\ NoBasePath

\* The body of request(props), run to its end as it awaits nothing, on
\* behalf of the function `fn` the caller reached through `how`.  json
\* awaits the promise request returned, and goes on once it has settled.
Call(how, fn, p) ==
    /\ cpc = "idle"
    /\ calledAs' = how
    /\ via' = fn
    /\ props' = p
    /\ LET out == RequestOutcome(clientBaseURL, clientHeaders, p)
           c == AsyncCall(out)
       IN  /\ syncThrow' = c.thrown
           /\ promise' = c.promise
           /\ jsonPromise' = IF fn = "json" /\ c.promise.state # "none"
                             THEN JsonPromise("pending", NoThrow, "none",
                                              Undef, NoResponse)
                             ELSE NoJsonPromise
           /\ fetched' = IF out.kind = "fetch" THEN Append(fetched, out.call)
                         ELSE fetched
           /\ cpc' = IF out.kind = "fetch" THEN "fetching"
                     ELSE IF fn = "json" /\ c.promise.state # "none"
                     THEN "resuming"
                     ELSE "settled"
    /\ UNCHANGED <<clientBaseURL, clientHeaders, onJsonError, routerVars,
                   originVars, coerceVars, baseVars>>

\* client.request(props)
ClientRequest(p) == Call("request", "request", p)

\* client.json(props)
ClientJson(p) == Call("json", "json", p)

\* client[key][method](args), for a route given in config.routes.
ClientRoute(key, method, args) ==
    Call("route", connectRoute(ClientMethods(key)[method]),
         RouteRequest(key, method, args))

\* The promise of fetch is fulfilled with a response.
FetchFulfilled(resp) ==
    /\ cpc = "fetching"
    /\ promise' = Promise("fulfilled", NoThrow, resp)
    /\ cpc' = IF via = "json" THEN "resuming" ELSE "settled"
    /\ UNCHANGED <<clientBaseURL, clientHeaders, onJsonError, calledAs, via,
                   props, syncThrow, jsonPromise, fetched, routerVars,
                   originVars, coerceVars, baseVars>>

\* The promise of fetch is rejected: the network failed.
FetchRejected ==
    /\ cpc = "fetching"
    /\ promise' = Promise("rejected", Error("TypeError", "fetch failed"),
                          NoResponse)
    /\ cpc' = IF via = "json" THEN "resuming" ELSE "settled"
    /\ UNCHANGED <<clientBaseURL, clientHeaders, onJsonError, calledAs, via,
                   props, syncThrow, jsonPromise, fetched, routerVars,
                   originVars, coerceVars, baseVars>>

\* json goes on after `await request(props)`, to its end.
JsonResumed ==
    /\ cpc = "resuming"
    /\ jsonPromise' = json(onJsonError, promise)
    /\ cpc' = "settled"
    /\ UNCHANGED <<clientBaseURL, clientHeaders, onJsonError, calledAs, via,
                   props, syncThrow, promise, fetched, routerVars,
                   originVars, coerceVars, baseVars>>

\* The caller is done with the call.
ClientFinish ==
    /\ cpc = "settled"
    /\ cpc' = "idle"
    /\ calledAs' = "none"
    /\ via' = "none"
    /\ props' = NoProps
    /\ syncThrow' = NoThrow
    /\ promise' = NoPromise
    /\ jsonPromise' = NoJsonPromise
    /\ fetched' = <<>>
    /\ UNCHANGED <<clientBaseURL, clientHeaders, onJsonError, routerVars,
                   originVars, coerceVars, baseVars>>

ClientNext ==
    \/ \E p \in ClientCalls : ClientRequest(p)
    \/ \E p \in JsonCalls : ClientJson(p)
    \/ \E c \in RouteCalls : ClientRoute(c[1], c[2], c[3])
    \/ \E resp \in NetworkResponses : FetchFulfilled(resp)
    \/ FetchRejected
    \/ JsonResumed
    \/ ClientFinish

ClientSpec == ClientInit /\ [][ClientNext]_vars

(***************************************************************************)
(* The allow-origin matcher on its own: the origins of the documentation   *)
(* of cors.allowOrigins, compiled as createRouter compiles them, and the   *)
(* Origin headers tested against them.                                     *)
(***************************************************************************)
Http ==
    <<"h", "t", "t", "p">>
Https ==
    <<"h", "t", "t", "p", "s">>
Sep ==
    <<":", "/", "/">>
Star ==
    <<"*">>
Localhost3000 ==
    <<"l", "o", "c", "a", "l", "h", "o", "s", "t", ":", "3", "0", "0", "0">>
Localhost4000 ==
    <<"l", "o", "c", "a", "l", "h", "o", "s", "t", ":", "4", "0", "0", "0">>
ExampleCom ==
    <<"e", "x", "a", "m", "p", "l", "e", ".", "c", "o", "m">>
ExampleNet ==
    <<"e", "x", "a", "m", "p", "l", "e", ".", "n", "e", "t">>
ExampleOrg ==
    <<"e", "x", "a", "m", "p", "l", "e", ".", "o", "r", "g">>
ShopDot ==
    <<"s", "h", "o", "p", ".">>
ABDot ==
    <<"a", ".", "b", ".">>
EvilIo ==
    <<".", "e", "v", "i", "l", ".", "i", "o">>

\* Entries of config.cors.allowOrigins.
AnyProtoLocalhost == Star \o Sep \o Localhost3000
HttpsAnySubExampleCom == Https \o Sep \o Star \o <<".">> \o ExampleCom
AnyProtoAnySubExampleCom == Star \o Sep \o Star \o <<".">> \o ExampleCom
HttpsExampleOrg == Https \o Sep \o ExampleOrg
HttpExampleNet == Http \o Sep \o ExampleNet

AllowOriginPool ==
    {ExampleNet, HttpsAnySubExampleCom, AnyProtoLocalhost, HttpsExampleOrg,
     HttpExampleNet, AnyProtoAnySubExampleCom}

\* Values of the Origin header.
OriginPool ==
    {Http \o Sep \o Localhost3000,
     Https \o Sep \o Localhost3000,
     Http \o Sep \o Localhost4000,
     Https \o Sep \o Localhost4000,
     Https \o Sep \o ExampleCom,
     Http \o Sep \o ExampleCom,
     Https \o Sep \o ShopDot \o ExampleCom,
     Http \o Sep \o ShopDot \o ExampleCom,
     Https \o Sep \o ABDot \o ExampleCom,
     Http \o Sep \o ABDot \o ExampleCom,
     Https \o Sep \o <<"s", "h", "o", "p">> \o ExampleCom,
     Https \o Sep \o ExampleCom \o EvilIo,
     Https \o Sep \o ExampleNet,
     Http \o Sep \o ExampleNet,
     Https \o Sep \o ShopDot \o ExampleNet,
     ExampleNet,
     Https \o Sep \o ExampleOrg,
     Https \o Sep \o ExampleOrg \o <<"/">>}

OriginTest(d, i, ok) == [input |-> i, done |-> d, ok |-> ok]

\* createRouter compiles the entry.
OriginInit ==
    /\ allowOrigin \in AllowOriginPool
    /\ compiledOrigin = CompileOrigin(allowOrigin)
    /\ originTest = OriginTest(FALSE, <<>>, FALSE)
    /\ NoRouter /\ NoClient /\ NoCoercion /\ NoBasePath

\* pattern.test(origin) for the Origin of a preflight.
TestOrigin(o) ==
    /\ originTest' = OriginTest(TRUE, o, PatternTest(compiledOrigin, o))
    /\ UNCHANGED <<allowOrigin, compiledOrigin, routerVars, clientVars,
                   coerceVars, baseVars>>

OriginNext == \E o \in OriginPool : TestOrigin(o)

OriginSpec == OriginInit /\ [][OriginNext]_vars

(***************************************************************************)
(* enableStringParsing on its own: schemas are coerced one call after      *)
(* another over the one cache `seen`, and a coerced schema may be coerced  *)
(* again.  A call runs to its end before the next: it awaits nothing.      *)
(***************************************************************************)
pageQuery ==
    ZObject("pageQuery", << <<"filter", itemQuery>>,
                            <<"ids", ZArray(ZNumber)>>,
                            <<"size", ZNumber>> >>)
pairQuery ==
    ZObject("pairQuery", << <<"a", itemPath>>, <<"b", itemPath>> >>)

SchemaPool ==
    {ZNumber, ZBoolean, ZString, ZOptional(ZBoolean), ZArray(ZNumber),
     ZArray(itemPath), itemPath, itemQuery, itemBody, pageQuery, pairQuery}

CoerceInit ==
    /\ schemaArg = NoSchema
    /\ schemaRet = NoSchema
    /\ schemaAgain = NoSchema
    /\ cacheHit = FALSE
    /\ NoRouter /\ NoClient /\ NoOriginTest /\ NoBasePath

\* enableStringParsing(schema) for a declared schema.
Coerce(schema) ==
    /\ LET r == enableStringParsing(schema, seen)
       IN  /\ schemaRet' = r.schema
           /\ seen' = r.seen
    /\ schemaArg' = schema
    /\ schemaAgain' = NoSchema
    /\ cacheHit' = (schema.type = "object" /\ schema.id \in DOMAIN seen)
    /\ UNCHANGED <<debug, allowOrigins, handlers, pc, request, context,
                   served, tried, stages, invoked, bodyError, handled,
                   result, clientVars, originVars, baseVars>>

\* enableStringParsing(schema) for the schema the last call returned.
CoerceAgain ==
    /\ schemaRet # NoSchema
    /\ schemaAgain = NoSchema
    /\ LET r == enableStringParsing(schemaRet, seen)
       IN  /\ schemaAgain' = r.schema
           /\ seen' = r.seen
    /\ UNCHANGED <<schemaArg, schemaRet, cacheHit, debug, allowOrigins,
                   handlers, pc, request, context, served, tried, stages,
                   invoked, bodyError, handled, result, clientVars,
                   originVars, baseVars>>

CoerceNext ==
    \/ \E schema \in SchemaPool : Coerce(schema)
    \/ CoerceAgain

CoerceSpec == CoerceInit /\ [][CoerceNext]_vars

(***************************************************************************)
(* The patterns createRouter compiles.  A pattern source and a base path   *)
(* are strings of tokens, as the path strings of the client are:           *)
(* "/api/" is <<"/", "api", "/">> and "hello/:name" is                     *)
(* <<"hello", "/", ":name">>.                                              *)
(***************************************************************************)
BasePathOf(d, str) == [str |-> str, defined |-> d]

\* config.basePath
BasePaths ==
    {BasePathOf(FALSE, <<>>),
     BasePathOf(TRUE, <<>>),
     BasePathOf(TRUE, <<"/">>),
     BasePathOf(TRUE, <<"api">>),
     BasePathOf(TRUE, <<"api", "/">>),
     BasePathOf(TRUE, <<"/", "api">>),
     BasePathOf(TRUE, <<"/", "api", "/">>),
     BasePathOf(TRUE, <<"v1", "/", "api">>),
     BasePathOf(TRUE, <<"v1", "/", "api", "/">>),
     BasePathOf(TRUE, <<"/", "v1", "/", "api">>),
     BasePathOf(TRUE, <<"/", "v1", "/", "api", "/">>)}

\* route.path.source
RouteSources ==
    {<<"hello", "/", ":name">>, <<"/", "hello", "/", ":name">>,
     <<"items", "/", ":id">>, <<"/", "items", "/", ":id">>}

\* The segment of a pattern a token stands for.
SegmentOf(token) ==
    CASE token = ":name" -> Param("name")
      [] token = ":id" -> Param("id")
      [] OTHER -> Lit(token)

\* new RoutePattern(source), for a pathname pattern: the segments between
\* the slashes, a slash at the start being ignored.
RoutePattern(source) ==
    LET segs == IF source # <<>> /\ Head(source) = "/"
                THEN SplitSegments(Tail(source), "")
                ELSE SplitSegments(source, "")
    IN  [n \in 1..Len(segs) |-> SegmentOf(segs[n])]

\* basePath.replace(/\/?$/, '/')
WithTrailingSlash(str) ==
    IF str # <<>> /\ str[Len(str)] = "/" THEN str ELSE Append(str, "/")

\* source.replace(/^\/?/, basePath)
PrependBase(source, base) ==
    base \o (IF source # <<>> /\ Head(source) = "/" THEN Tail(source)
             ELSE source)

\* basePath.replace(/(^\/)|(\/$)/, ''): the first match is removed, the
\* slash at the start if there is one, else the slash at the end.
TrimOneSlash(str) ==
    IF str # <<>> /\ Head(str) = "/" THEN Tail(str)
    ELSE IF str # <<>> /\ str[Len(str)] = "/"
    THEN SubSeq(str, 1, Len(str) - 1)
    ELSE str

\* The pattern of a route as an earlier revision compiled it: one slash
\* trimmed off the base path, which is then joined to the source with a
\* slash.
CompileRouteTrimOnce(base, source) ==
    IF base.defined /\ TrimOneSlash(base.str) # <<>>
    THEN RoutePattern(TrimOneSlash(base.str) \o <<"/">> \o source)
    ELSE RoutePattern(source)

\* patterns[key]: the pattern of the route, with the base path before it
\* when there is one.
CompileRoute(base, source) ==
    IF base.defined
    THEN RoutePattern(PrependBase(source, WithTrailingSlash(base.str)))
    ELSE RoutePattern(source)

\* The paths of the URLs matched against the pattern.
URLPaths ==
    {<<"hello", "world">>, <<"api", "hello", "world">>,
     <<"v1", "api", "hello", "world">>, <<"api", "", "hello", "world">>,
     <<"items", "7">>, <<"api", "items", "7">>,
     <<"v1", "api", "items", "7">>, <<"api", "api", "items", "7">>}

URLMatch(d, path, ok) == [path |-> path, done |-> d, ok |-> ok]

\* createRouter compiles the pattern of the route.
BasePathInit ==
    /\ basePath \in BasePaths
    /\ routeSource \in RouteSources
    /\ pattern = CompileRoute(basePath, routeSource)
    /\ urlMatch = URLMatch(FALSE, <<>>, FALSE)
    /\ NoRouter /\ NoClient /\ NoOriginTest /\ NoCoercion

\* patterns[key].match(url) in the loop of the dispatcher.
MatchURL(path) ==
    /\ urlMatch' = URLMatch(TRUE, path, PatternMatch(pattern, path).ok)
    /\ UNCHANGED <<basePath, routeSource, pattern, routerVars, clientVars,
                   originVars, coerceVars>>

BasePathNext == \E path \in URLPaths : MatchURL(path)

BasePathSpec == BasePathInit /\ [][BasePathNext]_vars

(***************************************************************************)
(* Properties of the dispatcher.  The definitions below describe the       *)
(* request at hand without following the dispatcher's control flow: which  *)
(* entries could serve it, and which of its parts are valid on their own.  *)
(***************************************************************************)
Dispatched == pc # "idle"
Finished == pc = "done"

PreflightRequest == request.method \in {"OPTIONS", "options"}

\* The method the request asks for.
LookupMethod ==
    IF PreflightRequest
    THEN IF request.acrm.has THEN request.acrm.v ELSE "GET"
    ELSE ToUpperCase(request.method)

Entries == 1..Len(keys)

\* Entry i declares the method and its pattern matches the URL.
Candidate(i) ==
    /\ LookupMethod \in DOMAIN Routes[keys[i]].methods
    /\ PatternMatch(Routes[keys[i]].path, request.path).ok

\* A handler is bound for the method at entry i.
Bound(i) ==
    /\ keys[i] \in DOMAIN handlers
    /\ LookupMethod \in handlers[keys[i]]

Servable(i) == Candidate(i) /\ Bound(i)
Unbound(i) == Candidate(i) /\ ~Bound(i)

\* Entry i declares the method and matches, and the handlers have no
\* object for its route.
NoHandlers(i) == Candidate(i) /\ keys[i] \notin DOMAIN handlers

Least(S) == CHOOSE i \in S : \A j \in S : i <= j

\* The first entry, in declaration order, that declares the method, matches
\* the URL and has a handler; 0 when there is none.
FirstServable ==
    IF \E i \in Entries : Servable(i)
    THEN Least({i \in Entries : Servable(i)})
    ELSE 0

\* An entry that declares the method and matches but has no handler comes
\* before any entry that could serve the request.
UnboundFirst ==
    \E i \in Entries : Unbound(i) /\ (FirstServable = 0 \/ i < FirstServable)

FirstUnbound == Least({i \in Entries : Unbound(i)})

HandlerNotFound(i) ==
    Thrown(<<"Handler not found for route: ", keys[i], " ", LookupMethod>>)

\* What reading the method of a route the handlers have no object for
\* throws.
PropertyOfUndefined == ReadOfUndefined(LookupMethod)

\* The lookup at entry i ends the dispatch with an error: the handlers have
\* no object for the route, or they have one without the method and debug
\* is on.
Fatal(i) == Unbound(i) /\ (debug \/ NoHandlers(i))

\* Such an entry comes before any entry that could serve the request.
FatalFirst ==
    \E i \in Entries : Fatal(i) /\ (FirstServable = 0 \/ i < FirstServable)

FirstFatal == Least({i \in Entries : Fatal(i)})

\* The error the lookup at entry i ends the dispatch with.
FatalError(i) ==
    IF NoHandlers(i) THEN PropertyOfUndefined ELSE HandlerNotFound(i)

\* The dispatcher has reached the validation of a non-preflight request.
Validating ==
    /\ Dispatched
    /\ ~PreflightRequest
    /\ served > 0
    /\ Servable(served)

StageOrder == <<"path", "headers", "query", "body">>

MessageFor(part) ==
    CASE part = "path" -> "Invalid path parameter"
      [] part = "headers" -> "Invalid request headers"
      [] part = "query" -> "Invalid query string"
      [] part = "body" -> "Invalid request body"

ServedSchemas == Routes[keys[served]].methods[LookupMethod]

SchemaFor(part) ==
    CASE part = "path" -> ServedSchemas.path
      [] part = "headers" -> ServedSchemas.headers
      [] part = "query" -> ServedSchemas.query
      [] part = "body" -> ServedSchemas.body

PartDeclared(part) == SchemaFor(part) # NoSchema

\* The outcome of validating one part of the request on its own.
PartOutcome(part) ==
    CASE part = "path" ->
            SafeParse(enableStringParsing(SchemaFor(part), <<>>).schema,
                Obj(PatternMatch(Routes[keys[served]].path,
                                 request.path).params))
      [] part = "headers" ->
            SafeParse(enableStringParsing(SchemaFor(part), <<>>).schema,
                      HeadersObject(request))
      [] part = "query" ->
            SafeParse(enableStringParsing(SchemaFor(part), <<>>).schema,
                      QueryObject(request))
      [] part = "body" ->
            IF request.body = BadJson THEN Fail(<<>>)
            ELSE SafeParse(SchemaFor(part), request.body)

PartFails(part) == PartDeclared(part) /\ ~PartOutcome(part).success

DeclaredParts == SelectSeq(StageOrder, PartDeclared)
FailingParts == SelectSeq(StageOrder, PartFails)

\* The declared parts up to and including `part`.
RECURSIVE Through(_, _)
Through(parts, part) ==
    IF parts = <<>> THEN <<>>
    ELSE IF Head(parts) = part THEN <<part>>
    ELSE <<Head(parts)>> \o Through(Tail(parts), part)

IsClientError(r) ==
    /\ r.kind = "response"
    /\ r.status = 400
    /\ r.body.kind = "error"

\* C1: for a matched route the parts are validated in the order path,
\* headers, query, body; the response is the 400 of the first part that
\* fails, and no part after it is evaluated (the body is not read when an
\* earlier part fails).
ValidationOrderFirstFailure ==
    /\ (Validating /\ pc = "body") =>
          /\ stages = DeclaredParts
          /\ \A n \in 1..Len(FailingParts) : FailingParts[n] = "body"
    /\ (Validating /\ Finished) =>
          IF FailingParts = <<>>
          THEN stages = DeclaredParts /\ ~IsClientError(result)
          ELSE /\ stages = Through(DeclaredParts, FailingParts[1])
               /\ IsClientError(result)
               /\ result.body.message[1] = MessageFor(FailingParts[1])

\* Headers and query are both invalid: only the headers error is reported.
HeadersAndQueryInvalid ==
    /\ Validating /\ Finished
    /\ PartFails("headers") /\ PartFails("query")
    /\ stages = <<"path", "headers">>
    /\ result.body.message = <<"Invalid request headers">>

\* C2, as claimed: for every request the outcome is decided by the first
\* entry that declares the method, matches the URL and has a handler.
FirstServableDecides ==
    (Dispatched /\ FirstServable > 0) =>
        /\ served = FirstServable
        /\ result.kind # "undefined"
        /\ result # HandlerNotFound(served)

\* C2, amended: the first entry that declares the method, matches the URL
\* and has a handler decides the outcome, and no entry after it is matched,
\* validated or invoked, unless the handler lookup fails at an earlier
\* entry that declares the method and matches: with debug on and no handler
\* for the method the dispatcher throws 'Handler not found' at that entry,
\* and with no handlers object for the route at all it throws a TypeError
\* there, debug on or off.
FirstServableDecidesUnlessDebugThrow ==
    (Dispatched /\ FirstServable > 0) =>
        IF FatalFirst
        THEN /\ served = FirstFatal
             /\ result = FatalError(FirstFatal)
             /\ \A n \in 1..Len(tried) : tried[n] <= FirstFatal
             /\ stages = <<>> /\ invoked = <<>>
        ELSE /\ served = FirstServable
             /\ result.kind # "undefined"
             /\ result # HandlerNotFound(served)
             /\ \A n \in 1..Len(tried) : tried[n] <= FirstServable
             /\ \A n \in 1..Len(invoked) : invoked[n] = FirstServable
             /\ (stages # <<>> => Validating)

\* A later entry would also match, and the first one served the request.
LaterEntryAlsoMatches ==
    /\ Finished
    /\ FirstServable > 0
    /\ served = FirstServable
    /\ \E j \in Entries : j > FirstServable /\ Servable(j)
    /\ invoked = <<FirstServable>>
    /\ result.kind = "response"

\* The README's request GET /hello/world?excited=true.
HelloExcited ==
    Request("GET", <<"hello", "world">>, [k \in {"excited"} |-> Str("true")],
            NoHdr, NoOrigin, NoHdr, NoHdr, EmptyObj)

\* C3: with a handler bound for GET on hello/:name, whose query schema is
\* {excited: z.optional(z.boolean())}, GET /hello/world?excited=true calls
\* the handler with path = {name: "world"} and query = {excited: true}.
HelloHandlerGetsBoolean ==
    (/\ request = HelloExcited
     /\ "hello" \in DOMAIN handlers
     /\ "GET" \in handlers["hello"]
     /\ pc \in {"handler", "done"}) =>
        /\ invoked = <<1>>
        /\ context.path = Obj([k \in {"name"} |-> Str("world")])
        /\ context.query = Obj([k \in {"excited"} |-> Bool(TRUE)])


\* C4: a part that fails validation (a body that is not JSON or lacks a
\* required field included) gives a 400 whose JSON body carries the
\* structured error, its issues, and the message naming the part; nothing
\* is thrown and the handler is not called.  When every declared part is
\* valid the handler is called.
ValidationFailureIs400 ==
    /\ (Validating /\ Finished /\ FailingParts # <<>>) =>
          /\ IsClientError(result)
          /\ result.body.message[1] = MessageFor(FailingParts[1])
          /\ "issues" \in DOMAIN result.body.own
          /\ invoked = <<>>
          /\ handled = NoResult
    /\ (Validating /\ FailingParts # <<>>) =>
          /\ pc # "handler"
          /\ result.kind # "throw"
    /\ (Validating /\ Finished /\ FailingParts = <<>>) =>
          invoked = <<served>>

\* C5: an OPTIONS request is a preflight for the method named by
\* Access-Control-Request-Method (GET when absent): nothing is validated,
\* nothing is attached to the context and no handler is called; the entry
\* that answers is the first one serving that method.
PreflightNeverValidates ==
    (Dispatched /\ PreflightRequest) =>
        /\ pc = "done"
        /\ stages = <<>>
        /\ context = EmptyContext
        /\ invoked = <<>>
        /\ handled = NoResult
        /\ (FirstServable > 0 /\ ~FatalFirst) =>
              /\ served = FirstServable
              /\ result.kind = "response"
              /\ result.body = NullBody
        /\ (FirstServable = 0 /\ ~FatalFirst) => result = ReturnedUndefined

\* A preflight without Access-Control-Request-Method is answered for GET by
\* an entry whose GET schemas the request would not pass.
PreflightDefaultsToGet ==
    /\ Finished /\ PreflightRequest
    /\ ~request.acrm.has
    /\ served > 0 /\ Servable(served)
    /\ PartFails("path") /\ PartFails("headers")
    /\ result.kind = "response"
    /\ stages = <<>>

\* A preflight that reached the origin check of an entry.
PreflightServed ==
    /\ Finished /\ PreflightRequest
    /\ served > 0 /\ Servable(served)

\* The origins the documentation of allowOrigins lets through, for the
\* lists configured here: `ex.net` stands for https://ex.net,
\* `https://*.ex.io` for any subdomain of ex.io over https, `*://lh:3` for
\* lh:3 over any protocol.
AllowedByDocs ==
    IF ~allowOrigins.defined THEN TRUE
    ELSE IF allowOrigins.list = <<OriginExNet, OriginWildSub>>
    THEN request.origin \in
            {Hdr(<<"h", "t", "t", "p", "s", ":", "/", "/",
                   "e", "x", ".", "n", "e", "t">>),
             Hdr(<<"h", "t", "t", "p", "s", ":", "/", "/",
                   "a", ".", "e", "x", ".", "i", "o">>)}
    ELSE request.origin \in
            {Hdr(<<"h", "t", "t", "p", ":", "/", "/", "l", "h", ":", "3">>)}

AllowHeaderNames ==
    {"access-control-allow-origin", "access-control-allow-methods",
     "access-control-allow-headers"}

\* C6: with allowOrigins configured, a preflight for a matched route gets a
\* 403 with an empty body when the request has no Origin or its Origin
\* matches no pattern, and the allow headers only when it matches one;
\* without allowOrigins every origin, and no origin, is allowed.
PreflightOriginCheck ==
    PreflightServed =>
        IF AllowedByDocs
        THEN /\ result.kind = "response"
             /\ result.status # 403
             /\ DOMAIN result.headers = AllowHeaderNames
        ELSE result = Response("new", 403, NoHeaders, NullBody)

\* allowOrigins is configured and the preflight carries no Origin.
MissingOriginIs403 ==
    /\ PreflightServed
    /\ allowOrigins.defined
    /\ ~request.origin.has
    /\ result.status = 403
    /\ result.body = NullBody

\* The headers of an allowed preflight.
ExpectedAllowHeaders ==
    ("access-control-allow-origin" :>
        (IF request.origin.has THEN request.origin.v ELSE <<"*">>))
    @@ ("access-control-allow-methods" :> <<LookupMethod>>)
    @@ ("access-control-allow-headers" :>
        (IF request.acrh.has THEN <<request.acrh.v>> ELSE <<>>))

\* C7, as claimed: an allowed preflight is answered with status 204, an
\* empty body and the three allow headers.
AllowedPreflightIs204 ==
    (PreflightServed /\ AllowedByDocs) =>
        /\ result.status = 204
        /\ result.body = NullBody
        /\ result.headers = ExpectedAllowHeaders

\* C7, amended: an allowed preflight is answered with status 200 (the
\* Response is built without a status), an empty body,
\* Access-Control-Allow-Origin equal to the request's Origin (`*` without
\* one), Access-Control-Allow-Methods equal to the requested method and
\* Access-Control-Allow-Headers equal to Access-Control-Request-Headers
\* (empty without one).
AllowedPreflightIs200 ==
    (PreflightServed /\ AllowedByDocs) =>
        /\ result.kind = "response"
        /\ result.status = 200
        /\ result.body = NullBody
        /\ result.headers = ExpectedAllowHeaders

\* An allowed preflight that names an origin and request headers.
AllowedPreflightEchoes ==
    /\ PreflightServed
    /\ allowOrigins.defined
    /\ request.origin.has /\ request.acrh.has /\ request.acrm.has
    /\ result.status = 200
    /\ result.headers["access-control-allow-origin"] = request.origin.v

\* C8: an entry that declares the method and matches the URL but has no
\* handler makes the dispatcher throw 'Handler not found' in debug mode;
\* otherwise the entry is skipped, with no response and no validation, and
\* a later entry with a handler still serves the request.
MissingHandlerThrowsOrSkips ==
    (Dispatched /\ \E i \in Entries : Unbound(i)) =>
        IF debug /\ UnboundFirst
        THEN /\ result = HandlerNotFound(FirstUnbound)
             /\ pc = "done"
             /\ stages = <<>> /\ invoked = <<>> /\ context = EmptyContext
        ELSE /\ \A i \in Entries : Unbound(i) =>
                    /\ result # HandlerNotFound(i)
                    /\ \A n \in 1..Len(invoked) : invoked[n] # i
                    /\ served # i
             /\ IF FirstServable > 0
                THEN served = FirstServable /\ result.kind # "undefined"
                ELSE result = ReturnedUndefined /\ stages = <<>>

\* Debug is off: the second entry matches without a handler, is skipped,
\* and the third entry serves the request.
SkippedEntryThenServed ==
    /\ ~debug /\ Finished
    /\ Unbound(2)
    /\ tried = <<2, 3>>
    /\ served = 3
    /\ invoked = <<3>>
    /\ result.kind = "response"

\* C9, as claimed: when no entry declares the method, matches the URL and
\* has a handler, the dispatcher returns undefined, throws nothing and calls
\* no handler.
NoServableEntryReturnsUndefined ==
    (Finished /\ FirstServable = 0) =>
        /\ result = ReturnedUndefined
        /\ invoked = <<>>

\* C9, amended: when no entry declares the method and matches the URL, the
\* dispatcher returns undefined, throws nothing and calls no handler; when
\* entries do so but none has a handler, no handler is called either, and
\* the dispatcher returns undefined only if debug is off and the handlers
\* have an object for the route of each of them: it throws at the first of
\* them that has no handlers object (a TypeError) or, with debug on, no
\* handler for the method ('Handler not found').
NoServableEntryUndefinedOrDebugThrow ==
    (Dispatched /\ FirstServable = 0) =>
        /\ pc = "done"
        /\ invoked = <<>>
        /\ stages = <<>>
        /\ handled = NoResult
        /\ IF \E i \in Entries : Fatal(i)
           THEN result = FatalError(FirstFatal)
           ELSE result = ReturnedUndefined

\* Entries were matched against the URL, none could serve the request, and
\* undefined was returned.
NothingServedReturnsUndefined ==
    /\ Finished
    /\ FirstServable = 0
    /\ tried # <<>>
    /\ \E i \in Entries : Unbound(i)
    /\ result = ReturnedUndefined

\* C10: a handler result that is a Response is returned as the same
\* object; any other result is returned as a JSON response with status 200
\* whose body is the serialized result.
HandlerResultNormalized ==
    (Finished /\ handled # NoResult /\ handled.kind # "throw") =>
        IF handled.kind = "response"
        THEN result = handled
        ELSE /\ result.kind = "response"
             /\ result.status = 200
             /\ result.body = [kind |-> "json", val |-> JsonValue(handled)]


(***************************************************************************)
(* Properties of the client.  The definitions below describe the call at   *)
(* hand from its arguments alone.                                          *)
(***************************************************************************)
ClientCalled == cpc # "idle"

\* The caller gave a query, or a body, to a method that declares none.  A
\* query is given when the argument counts as true: {} is a query, "" is
\* not.
QuerySupplied == Truthy(props.args.query)
BodySupplied == props.args.body # Undef
QueryForbidden == props.schema.query = NoSchema /\ QuerySupplied
BodyForbidden == props.schema.body = NoSchema /\ BodySupplied

\* The per-call headers that carry a value, over the defaults.
ExpectedHeaders ==
    LET own == IF props.args.headers = Undef THEN {}
               ELSE {k \in DOMAIN props.args.headers.props :
                        props.args.headers.props[k] # Undef}
        dflt == IF clientHeaders = Undef THEN {} ELSE DOMAIN clientHeaders.props
    IN  IF clientHeaders = Undef /\ props.args.headers = Undef THEN Undef
        ELSE Obj([k \in own \cup dflt |->
                     IF k \in own THEN props.args.headers.props[k]
                     ELSE clientHeaders.props[k]])

\* A declared part of the call does not pass its schema.
PathInvalid ==
    /\ props.schema.path # NoSchema
    /\ ~SafeParse(props.schema.path, props.args.path).success
QueryInvalid ==
    /\ props.schema.query # NoSchema
    /\ ~SafeParse(props.schema.query,
                  IF props.args.query \in {Undef, Null} THEN EmptyObj
                  ELSE props.args.query).success
BodyInvalid ==
    /\ props.schema.body # NoSchema
    /\ ~SafeParse(props.schema.body,
                  IF BodySupplied THEN props.args.body ELSE EmptyObj).success
HeadersInvalid ==
    /\ props.schema.headers # NoSchema
    /\ ~SafeParse(props.schema.headers, ExpectedHeaders).success

UsageError == QueryForbidden \/ BodyForbidden \/ PathInvalid \/ QueryInvalid
                  \/ BodyInvalid

ErrorRaised == syncThrow # NoThrow \/ promise.state = "rejected"

\* C11: when the caller gives a query or a body to a method that declares
\* none, or the path, query, body or headers fail validation, the call
\* raises an error and fetch is never called.
NoFetchOnUsageError ==
    (ClientCalled /\ (UsageError \/ HeadersInvalid)) =>
        /\ ErrorRaised
        /\ fetched = <<>>
        /\ cpc \in {"resuming", "settled"}
        /\ promise.state # "fulfilled"

\* A query given to a method without a query schema: nothing is fetched.
UnexpectedQueryNotFetched ==
    /\ ClientCalled
    /\ QueryForbidden
    /\ ~PathInvalid /\ ~BodyForbidden /\ ~BodyInvalid /\ ~HeadersInvalid
    /\ clientBaseURL.absolute
    /\ ErrorRaised
    /\ fetched = <<>>

\* C12, as claimed: a usage error is thrown by the call to request itself,
\* which then returns no promise.
UsageErrorThrownByCall ==
    (ClientCalled /\ UsageError) =>
        /\ syncThrow # NoThrow
        /\ promise = NoPromise

\* C12, amended: a usage error is raised before any network request is
\* made and is delivered as the rejection of the promise the call returns;
\* the call itself throws nothing.
UsageErrorRejectsPromise ==
    (ClientCalled /\ UsageError) =>
        /\ syncThrow = NoThrow
        /\ promise.state = "rejected"
        /\ promise.error.name \in {"$ZodError", "Error", "MissingParamError",
                                   "TypeError"}
        /\ fetched = <<>>

\* A body given to a method without a body schema: the promise is rejected
\* with 'Unexpected body'.
UnexpectedBodyRejected ==
    /\ ClientCalled
    /\ BodyForbidden
    /\ syncThrow = NoThrow
    /\ promise = Promise("rejected", Error("Error", "Unexpected body"),
                         NoResponse)
    /\ fetched = <<>>


(***************************************************************************)
(* Properties of the allow-origin matcher.                                 *)
(***************************************************************************)
\* An Origin whose host has two labels before example.com.
TwoExtraLabels ==
    originTest.input \in {Https \o Sep \o ABDot \o ExampleCom,
                          Http \o Sep \o ABDot \o ExampleCom}

\* The origins the documentation names for each entry, among those tested:
\* a wildcard protocol stands for any protocol, a wildcard subdomain for
\* the domain itself or a subdomain of it, an entry without a protocol is
\* an https origin, and an entry without a wildcard is one origin.
DocumentedOrigins(entry) ==
    CASE entry = AnyProtoLocalhost ->
            {Http \o Sep \o Localhost3000, Https \o Sep \o Localhost3000}
      [] entry = HttpsAnySubExampleCom ->
            {Https \o Sep \o ExampleCom,
             Https \o Sep \o ShopDot \o ExampleCom}
      [] entry = AnyProtoAnySubExampleCom ->
            {Https \o Sep \o ExampleCom, Http \o Sep \o ExampleCom,
             Https \o Sep \o ShopDot \o ExampleCom,
             Http \o Sep \o ShopDot \o ExampleCom}
      [] entry = ExampleNet -> {Https \o Sep \o ExampleNet}
      [] entry = HttpsExampleOrg -> {Https \o Sep \o ExampleOrg}
      [] entry = HttpExampleNet -> {Http \o Sep \o ExampleNet}

\* C13: the compiled matcher accepts the documented origins and no other:
\* `*://localhost:3000` accepts localhost:3000 over http and https and not
\* localhost:4000; `https://*.example.com` accepts https://example.com and
\* https://shop.example.com and not http://shop.example.com; an entry
\* without `*` accepts the identical string only; `example.net` stands for
\* https://example.net.  (Hosts with two labels before the domain are the
\* matter of C14.)
MatcherAcceptsDocumentedOrigins ==
    (originTest.done /\ ~TwoExtraLabels) =>
        (originTest.ok <=> originTest.input \in DocumentedOrigins(allowOrigin))

\* `example.net` accepts https://example.net.
BareEntryAcceptsHttps ==
    /\ allowOrigin = ExampleNet
    /\ originTest = OriginTest(TRUE, Https \o Sep \o ExampleNet, TRUE)

HasWildcardSubdomain ==
    allowOrigin \in {HttpsAnySubExampleCom, AnyProtoAnySubExampleCom}

\* C14, as claimed: a wildcard-subdomain entry accepts no origin whose host
\* has two or more labels before the domain.
WildcardSubdomainOneLabelAtMost ==
    (originTest.done /\ HasWildcardSubdomain /\ TwoExtraLabels) =>
        ~originTest.ok

\* C14, amended: a wildcard-subdomain entry such as https://*.example.com
\* accepts the domain itself and the domain preceded by any non-empty run
\* of characters other than `/` that ends in a dot: one extra label, and
\* also two or more (https://a.b.example.com is accepted); the protocol
\* must still match.
WildcardSubdomainAnyLabels ==
    (originTest.done /\ HasWildcardSubdomain /\ TwoExtraLabels) =>
        (originTest.ok <=>
            \/ allowOrigin = AnyProtoAnySubExampleCom
            \/ originTest.input = Https \o Sep \o ABDot \o ExampleCom)

\* https://*.example.com accepted https://a.b.example.com.
TwoLabelsAccepted ==
    /\ allowOrigin = HttpsAnySubExampleCom
    /\ originTest = OriginTest(TRUE, Https \o Sep \o ABDot \o ExampleCom,
                               TRUE)


(***************************************************************************)
(* Properties of the coercion.                                             *)
(***************************************************************************)
\* The query stage of a route whose query schema is {flag: z.boolean()} was
\* reached: the parts before it are valid.
FlagQueryValidated ==
    /\ Validating
    /\ ServedSchemas.query = itemQuery
    /\ ~PartFails("path") /\ ~PartFails("headers")
    /\ pc \in {"handler", "done"}

InvalidQueryString ==
    /\ IsClientError(result)
    /\ result.body.message[1] = "Invalid query string"
    /\ (~debug => result.body.message = <<"Invalid query string">>)
    /\ invoked = <<>>

FlagIs(str) == request.query = [k \in {"flag"} |-> Str(str)]

\* C15: a boolean field of the query is true for "true" and false for
\* "false"; any other string is left as it is and fails the boolean schema,
\* so the response is the 400 'Invalid query string'; and GET
\* /hello/world?excited=maybe is answered with that 400.
StrictBooleanCoercion ==
    /\ (FlagQueryValidated /\ FlagIs("true")) =>
          /\ context.query = Obj([k \in {"flag"} |-> Bool(TRUE)])
          /\ invoked = <<served>>
    /\ (FlagQueryValidated /\ FlagIs("false")) =>
          /\ context.query = Obj([k \in {"flag"} |-> Bool(FALSE)])
          /\ invoked = <<served>>
    /\ (FlagQueryValidated /\ FlagIs("yes")) =>
          /\ InvalidQueryString
          /\ debug => result.body.message =
                          <<"Invalid query string", ": ", "invalid_type",
                            "flag", ";">>
    /\ (/\ Validating /\ Finished
        /\ ServedSchemas.query = helloQuery
        /\ request.query = [k \in {"excited"} |-> Str("maybe")]) =>
          InvalidQueryString

\* GET /hello/world?excited=maybe was answered 400 'Invalid query string'.
MaybeIsInvalidQuery ==
    /\ Finished
    /\ request.path = <<"hello", "world">>
    /\ request.query = [k \in {"excited"} |-> Str("maybe")]
    /\ ~debug
    /\ IsClientError(result)
    /\ result.body.message = <<"Invalid query string">>


\* No number or boolean is left as it was declared, in the fields of
\* objects and the elements of arrays.
RECURSIVE FullyCoerced(_)
FullyCoerced(schema) ==
    CASE schema.type \in {"number", "boolean"} -> FALSE
      [] schema.type = "object" ->
            \A n \in 1..Len(schema.shape) : FullyCoerced(schema.shape[n][2])
      [] schema.type = "array" -> FullyCoerced(schema.element)
      [] OTHER -> TRUE

\* The object schemas a schema is made of, itself included.
RECURSIVE ObjectsOf(_)
ObjectsOf(schema) ==
    CASE schema.type = "object" ->
            {schema} \cup UNION {ObjectsOf(schema.shape[n][2]) :
                                    n \in 1..Len(schema.shape)}
      [] schema.type = "array" -> ObjectsOf(schema.element)
      [] OTHER -> {}

\* `to` has the fields of `from`, in its order.
SameFields(from, to) ==
    /\ to.type = "object"
    /\ Len(to.shape) = Len(from.shape)
    /\ \A n \in 1..Len(from.shape) : to.shape[n][1] = from.shape[n][1]

\* The object schemas that were passed to enableStringParsing, or met in
\* the schemas passed to it.
DeclaredObjects == UNION {ObjectsOf(schema) : schema \in SchemaPool}

\* Every entry of the cache is a fully coerced schema, and the one every
\* object schema holding the key was built with.
CacheSound ==
    /\ \A id \in DOMAIN seen :
          /\ FullyCoerced(seen[id])
          /\ \A o \in DeclaredObjects :
                o.id = id =>
                    /\ SameFields(o, seen[id])
                    /\ \A n \in 1..Len(o.shape) :
                          o.shape[n][2].type = "object" =>
                              /\ o.shape[n][2].id \in DOMAIN seen
                              /\ seen[id].shape[n][2] = seen[o.shape[n][2].id]
    /\ schemaRet # NoSchema =>
          /\ FullyCoerced(schemaRet)
          /\ \A o \in ObjectsOf(schemaArg) : o.id \in DOMAIN seen
          /\ schemaArg.type = "object" => schemaRet = seen[schemaArg.id]

\* C16: the cache is keyed by the object schema; every entry is a fully
\* built coerced schema; once a schema has an entry the entry is never
\* replaced, a call for that schema changes nothing in the cache and
\* returns the entry itself; what a call returns is never partly coerced.
CacheEntriesBuiltOnce ==
    [][/\ \A id \in DOMAIN seen :
             id \in DOMAIN seen' /\ seen'[id] = seen[id]
       /\ (/\ schemaArg'.type = "object"
           /\ schemaArg'.id \in DOMAIN seen
           /\ schemaAgain' = NoSchema) =>
             /\ seen' = seen
             /\ schemaRet' = seen[schemaArg'.id]
       /\ CacheSound']_vars

\* A schema coerced as a field of another is asked for on its own: the
\* call returns the cached schema, the one the other was built with.
NestedSchemaReused ==
    /\ cacheHit
    /\ schemaArg = itemQuery
    /\ "pageQuery" \in DOMAIN seen
    /\ schemaRet = seen["itemQuery"]
    /\ seen["pageQuery"].shape[1][2] = schemaRet

\* Values given to safeParse.
CoercionInputs ==
    {Undef, Str("7"), Str("abc"), Str("true"), Str("false"), Str("yes"),
     Str(""), Num(7), Bool(TRUE),
     Arr(<<Str("1"), Str("7")>>), Arr(<<Str("x")>>), Arr(<<Num(1)>>),
     Arr(<<Obj([k \in {"id"} |-> Str("42")])>>),
     EmptyObj,
     Obj([k \in {"id"} |-> Str("7")]),
     Obj([k \in {"id"} |-> Str("abc")]),
     Obj([k \in {"flag"} |-> Str("true")]),
     Obj([k \in {"flag"} |-> Str("yes")]),
     Obj([k \in {"title"} |-> Str("x")]),
     Obj([k \in {"a", "b"} |-> Obj([j \in {"id"} |-> Str("1")])]),
     Obj([k \in {"filter", "ids", "size"} |->
             CASE k = "filter" -> Obj([j \in {"flag"} |-> Str("false")])
               [] k = "ids" -> Arr(<<Str("1"), Str("42")>>)
               [] k = "size" -> Str("7")]),
     Obj([k \in {"filter", "ids", "size"} |->
             CASE k = "filter" -> Obj([j \in {"flag"} |-> Str("no")])
               [] k = "ids" -> Arr(<<Str("1"), Str("x")>>)
               [] k = "size" -> Num(7)])}

\* C17: the schema got by coercing a coerced schema again accepts and
\* rejects the same values as the coerced schema, with the same data and
\* the same issues.
CoercionIdempotent ==
    schemaAgain # NoSchema =>
        \A v \in CoercionInputs :
            SafeParse(schemaAgain, v) = SafeParse(schemaRet, v)

\* The coerced pageQuery was coerced again: another object, that takes
\* the same strings for the same numbers and booleans.
CoercedAgainParsesStrings ==
    /\ schemaArg = pageQuery
    /\ schemaAgain # NoSchema
    /\ schemaAgain # schemaRet
    /\ \E v \in CoercionInputs :
          /\ SafeParse(schemaAgain, v).success
          /\ SafeParse(schemaAgain, v).data # v
          /\ ~SafeParse(schemaArg, v).success


(***************************************************************************)
(* Properties of the base path.                                            *)
(***************************************************************************)
\* The segments a base path names, however it is written.
BaseSegments ==
    CASE basePath.str \in {<<"api">>, <<"api", "/">>, <<"/", "api">>,
                           <<"/", "api", "/">>} -> <<"api">>
      [] basePath.str \in {<<"v1", "/", "api">>, <<"v1", "/", "api", "/">>,
                           <<"/", "v1", "/", "api">>,
                           <<"/", "v1", "/", "api", "/">>} -> <<"v1", "api">>
      [] OTHER -> <<>>

\* The segments of the route's own template, with or without a slash at
\* its start.
RouteTemplate ==
    IF routeSource \in {<<"hello", "/", ":name">>,
                        <<"/", "hello", "/", ":name">>}
    THEN <<Lit("hello"), Param("name")>>
    ELSE <<Lit("items"), Param("id")>>

\* The path a URL must have to match: the base segments, then a path the
\* route's template matches.
ExpectedToMatch(path) ==
    /\ Len(path) = Len(BaseSegments) + 2
    /\ SubSeq(path, 1, Len(BaseSegments)) = BaseSegments
    /\ path[Len(BaseSegments) + 1] = RouteTemplate[1].name

\* C18: with a base path, the pattern of a route is the base path joined
\* to the route's template by one separator, whether the base path is
\* written with or without a slash at its start or end and whether the
\* template starts with a slash: `api`, `api/`, `/api` and `/api/` route
\* alike.
BasePathJoinedOnce ==
    /\ pattern = [n \in 1..Len(BaseSegments) |-> Lit(BaseSegments[n])]
                     \o RouteTemplate
    /\ urlMatch.done => (urlMatch.ok <=> ExpectedToMatch(urlMatch.path))

\* The base path is written `/api/` and the template `/hello/:name`:
\* /api/hello/world matches.
SlashedBasePathMatches ==
    /\ basePath = BasePathOf(TRUE, <<"/", "api", "/">>)
    /\ routeSource = <<"/", "hello", "/", ":name">>
    /\ pattern = <<Lit("api"), Lit("hello"), Param("name")>>
    /\ urlMatch = URLMatch(TRUE, <<"api", "hello", "world">>, TRUE)


(***************************************************************************)
(* Properties of what the client sends.                                    *)
(***************************************************************************)
Fetched == fetched # <<>>

\* The header sent under a name, undefined when none is.
HeaderSent(k) ==
    IF fetched[1].headers.kind = "obj" THEN Prop(fetched[1].headers, k)
    ELSE Undef

\* C19: the headers sent are the default headers overlaid by the per-call
\* headers that carry a value: a per-call value replaces the default of
\* its name, a per-call undefined leaves the default; when the method
\* declares a headers schema, what is sent is what the schema makes of this
\* merged map.
SentHeadersAreMergedDefaults ==
    Fetched =>
        /\ Len(fetched) = 1
        /\ fetched[1].headers =
              IF props.schema.headers # NoSchema
              THEN SafeParse(props.schema.headers, ExpectedHeaders).data
              ELSE ExpectedHeaders
        /\ props.schema.headers = NoSchema =>
              \A k \in {"authorization", "x-v"} :
                  HeaderSent(k) =
                      IF /\ props.args.headers # Undef
                         /\ Prop(props.args.headers, k) # Undef
                      THEN Prop(props.args.headers, k)
                      ELSE IF clientHeaders # Undef
                      THEN Prop(clientHeaders, k)
                      ELSE Undef

\* The defaults name authorization and x-v; the call gives x-v a value and
\* leaves authorization undefined: x-v is replaced, authorization is kept.
DefaultKeptAndOverridden ==
    /\ Fetched
    /\ props.schema.headers = NoSchema
    /\ clientHeaders = Obj([k \in {"authorization", "x-v"} |->
                               IF k = "x-v" THEN Str("0") ELSE Str("tok")])
    /\ props.args.headers = Obj([k \in {"x-v", "authorization"} |->
                                    IF k = "x-v" THEN Num(1) ELSE Undef])
    /\ fetched[1].headers = Obj([k \in {"authorization", "x-v"} |->
                                    IF k = "x-v" THEN Num(1) ELSE Str("tok")])

\* The path segments the base URL names, with or without a slash at its
\* end.
BaseURLSegments ==
    IF clientBaseURL.path \in {<<"/", "api">>, <<"/", "api", "/">>}
    THEN <<"api">>
    ELSE <<>>

\* The path generated by the pattern, segment by segment.
GeneratedSegments ==
    [n \in 1..Len(props.path.segs) |->
        IF props.path.segs[n].seg = "lit" THEN props.path.segs[n].name
        ELSE StringOf(Prop(props.args.path, props.path.segs[n].name))]

\* C20: for a root-relative generated path the URL is the base URL with the
\* generated path appended to its path by exactly one separator, whether
\* the base URL ends with a slash or not and whether it has a path or not;
\* a generated absolute URL is used as it is.
URLJoinsBaseAndPath ==
    Fetched =>
        IF props.path.origin = ""
        THEN /\ fetched[1].url.origin = clientBaseURL.origin
             /\ fetched[1].url.pathname = BaseURLSegments \o GeneratedSegments
        ELSE /\ fetched[1].url.origin = props.path.origin
             /\ fetched[1].url.pathname = GeneratedSegments

\* json was called, the promise of request was fulfilled with a response
\* and json has run to its end.
JsonSettled ==
    /\ via = "json"
    /\ cpc = "settled"
    /\ promise.state = "fulfilled"

\* The response is not ok and a handler is configured.
HandlerApplies ==
    /\ promise.response.status \notin 200..299
    /\ onJsonError # "none"

\* C21: json gives the response to config.onJsonError, and settles as the
\* handler does without reading the body, exactly when the response is not
\* ok and a handler is configured; in every other case, a response that is
\* not ok and no handler included, it reads the body as JSON and resolves
\* to the value read.  A rejection of request is the rejection of json.
JsonDelegatesExactlyOnError ==
    /\ JsonSettled =>
          IF HandlerApplies
          THEN /\ jsonPromise.kind = "handled"
               /\ jsonPromise.response = promise.response
               /\ jsonPromise.value = Undef
               /\ jsonPromise.state =
                      (IF onJsonError = "throw" THEN "rejected"
                       ELSE "fulfilled")
          ELSE /\ jsonPromise.kind = "decoded"
               /\ IF promise.response.body = BadJson
                  THEN /\ jsonPromise.state = "rejected"
                       /\ jsonPromise.error.name = "SyntaxError"
                  ELSE /\ jsonPromise.state = "fulfilled"
                       /\ jsonPromise.value = promise.response.body
    /\ (via = "json" /\ cpc = "settled" /\ promise.state = "rejected") =>
          /\ jsonPromise.state = "rejected"
          /\ jsonPromise.error = promise.error
          /\ jsonPromise.kind = "none"

\* A 400 answered to a json call of a client with a handler: the handler's
\* result is what json resolves to.
ErrorResponseHandled ==
    /\ JsonSettled
    /\ calledAs = "json"
    /\ clientBaseURL = BaseURL(TRUE, "https://ex.io", <<"/", "api">>)
    /\ clientHeaders = Undef
    /\ props = RouteRequest("hello", "GET",
                            Args(Obj([k \in {"name"} |-> Str("world")]),
                                 Undef, Undef, Undef))
    /\ onJsonError = "return"
    /\ promise.response.status = 400
    /\ jsonPromise.state = "fulfilled"
    /\ jsonPromise.kind = "handled"
    /\ jsonPromise.response = promise.response

\* The schema of the method called declares a response marker.
ResponseDeclared == props.schema.response # Undef

\* C26: a method of an attached route whose schema declares a response
\* marker made with $type goes through json and resolves to the decoded
\* JSON; a method without a marker goes through request and resolves to
\* the Response.
MarkedMethodDecodesJson ==
    (calledAs = "route" /\ cpc = "settled" /\ promise.state = "fulfilled") =>
        IF ResponseDeclared
        THEN /\ via = "json"
             /\ jsonPromise.kind \in {"decoded", "handled"}
        ELSE /\ via = "request"
             /\ jsonPromise = NoJsonPromise

\* The tokens of `part` occur in `whole`, in order and side by side.
Includes(whole, part) ==
    \E n \in 0..(Len(whole) - Len(part)) :
        SubSeq(whole, n + 1, n + Len(part)) = part

\* C22: with debug on, when the handler throws, the dispatcher returns a
\* response whose body includes the message of the error; the error does
\* not leave the dispatcher.
DebugHandlerErrorInResponse ==
    (Finished /\ debug /\ handled.kind = "throw") =>
        /\ result.kind = "response"
        /\ result.body.kind = "error"
        /\ Includes(result.body.message, handled.error)

\* The first entry, in declaration order, that declares the method asked
\* for and matches the URL; 0 when there is none.
FirstCandidate ==
    IF \E i \in Entries : Candidate(i)
    THEN Least({i \in Entries : Candidate(i)})
    ELSE 0

\* The answer to a preflight: the allow headers, or a 403.
IsPreflightResponse(r) ==
    /\ r.kind = "response"
    /\ r.body = NullBody
    /\ \/ r.status = 403
       \/ DOMAIN r.headers = AllowHeaderNames

\* C23, as stated: a preflight whose method is declared on an entry that
\* matches the URL gets the preflight response of that entry, allow headers
\* or 403, with or without a handler for the method, and never the 'Handler
\* not found' error.
PreflightIgnoresHandlers ==
    (Finished /\ PreflightRequest /\ FirstCandidate > 0) =>
        /\ IsPreflightResponse(result)
        /\ served = FirstCandidate

\* C23, amended: the missing-handler rule applies to preflights as to any
\* request.  A preflight gets the preflight response, allow headers or 403,
\* only from an entry that declares the method, matches the URL and has a
\* handler for the method; an entry without the handler makes the
\* dispatcher throw 'Handler not found' in debug mode and is skipped
\* otherwise, and an entry whose route has no handlers object at all makes
\* it throw a TypeError, debug on or off.
PreflightNeedsHandler ==
    (Finished /\ PreflightRequest /\ FirstCandidate > 0) =>
        IF FatalFirst
        THEN result = FatalError(FirstFatal)
        ELSE IF FirstServable > 0
        THEN /\ IsPreflightResponse(result)
             /\ served = FirstServable
             /\ Servable(served)
        ELSE result = ReturnedUndefined

\* Debug is on and the preflight asks for a method the matching entry
\* declares without a handler: the dispatcher throws.
PreflightHandlerNotFound ==
    /\ Finished /\ PreflightRequest
    /\ debug
    /\ FirstCandidate > 0 /\ Unbound(FirstCandidate)
    /\ ~NoHandlers(FirstCandidate)
    /\ result = HandlerNotFound(FirstCandidate)

\* The ids of the body schemas of the routes the router is built with.
BodySchemaIds ==
    UNION {{Routes[keys[n]].methods[m].body.id :
               m \in {k \in DOMAIN Routes[keys[n]].methods :
                         Routes[keys[n]].methods[k].body # NoSchema}} :
           n \in 1..Len(keys)}

ContextPart(part) ==
    CASE part = "path" -> context.path
      [] part = "headers" -> context.headers
      [] part = "query" -> context.query
      [] part = "body" -> context.body

\* The params captured by the pattern of the entry that serves the request.
CapturedParams == PatternMatch(Routes[keys[served]].path, request.path).params

\* C24: the dispatcher coerces exactly the declared path, headers and query
\* schemas.  The body schema never enters the coercion cache and the body
\* is validated by the schema as declared; a part other than the body that
\* passed is the outcome of its coerced schema; and without a path schema
\* context.path is the captured params as they are, strings, with no path
\* stage at all.
CoercionOnlyOutsideBody ==
    /\ \A id \in BodySchemaIds : id \notin DOMAIN seen
    /\ Validating =>
          /\ \A n \in 1..Len(stages) :
                stages[n] # "body" =>
                    /\ SchemaFor(stages[n]).id \in DOMAIN seen
                    /\ PartOutcome(stages[n]).success =>
                          ContextPart(stages[n]) = PartOutcome(stages[n]).data
          /\ ~PartDeclared("path") =>
                /\ context.path = Obj(CapturedParams)
                /\ \A k \in DOMAIN context.path.props :
                      context.path.props[k].kind = "str"
                /\ \A n \in 1..Len(stages) : stages[n] # "path"
          /\ (/\ pc \in {"handler", "done"}
              /\ PartDeclared("body")
              /\ \A n \in 1..Len(FailingParts) : FailingParts[n] = "body") =>
                IF PartOutcome("body").success
                THEN /\ context.body = PartOutcome("body").data
                     /\ ~IsClientError(result)
                ELSE /\ context.body = Undef
                     /\ IsClientError(result)
                     /\ result.body.message[1] = "Invalid request body"

\* A body whose tags are numbers written as strings, sent to a method with
\* no path schema: the body is refused and the params stay strings.
StringTagsRefused ==
    /\ Validating /\ Finished
    /\ ~PartDeclared("path")
    /\ ServedSchemas.body = tagsBody
    /\ request.body = Obj([k \in {"tags"} |-> Arr(<<Str("1")>>)])
    /\ IsClientError(result)
    /\ result.body.message = <<"Invalid request body">>
    /\ context.path = Obj([k \in {"kind", "slug"} |->
                              IF k = "kind" THEN Str("hello") ELSE Str("world")])
    /\ invoked = <<>>

\* C25: for every request at most one handler is invoked, at most once:
\* the handler of the entry that serves the request, and only after every
\* part its method declares has passed validation; the context it is given
\* holds the validated value of every declared part.  When a part fails no
\* handler is invoked, whatever the earlier stages attached to the context.
OneHandlerAfterAllValidation ==
    /\ Len(invoked) <= 1
    /\ invoked # <<>> =>
          /\ Validating
          /\ invoked = <<served>>
          /\ FailingParts = <<>>
          /\ stages = DeclaredParts
          /\ \A n \in 1..Len(DeclaredParts) :
                ContextPart(DeclaredParts[n]) =
                    PartOutcome(DeclaredParts[n]).data
    /\ (Validating /\ FailingParts # <<>>) =>
          /\ invoked = <<>>
          /\ handled = NoResult
    /\ handled # NoResult => invoked # <<>>

\* Path, headers and body pass: the handler of the entry is invoked, once,
\* with the three validated values.
HandlerGivenValidatedParts ==
    /\ Validating /\ Finished
    /\ stages = <<"path", "headers", "body">>
    /\ invoked = <<served>>
    /\ handled # NoResult
    /\ context.path = Obj([k \in {"id"} |-> Num(7)])
    /\ context.headers = Obj([k \in {"x-v"} |-> Num(1)])
    /\ context.body = Obj([k \in {"title"} |-> Str("x")])

=============================================================================
